---- MODULE Spec2Model ----
(***************************************************************************)
(* Model of the OpenClaw offline-SQLite memory plugin (src/index.ts, the   *)
(* second, current copy of the file starting at line 351, and              *)
(* capture-utils = src/unnamed/part_002).                                  *)
(*                                                                         *)
(* A text is a sequence of tokens.  A token is one character ("a", " ",    *)
(* ".") or one literal marker of the injected context blocks               *)
(* ("<relevant-memories>", ...); CharLen gives the JavaScript length of a  *)
(* token.  The SQLite store of the core package is the state: the items    *)
(* table, the embeddings table and the facts table.                        *)
(***************************************************************************)
EXTENDS Integers, Sequences, FiniteSets, TLC

VARIABLES
    pluginConfig,             \* api.pluginConfig, the raw host configuration
    now,                      \* Date.now(), in seconds
    ticks,                    \* number of clock advances so far (bounds the run)
    items,                    \* rows of the items table
    embeddings,               \* item_id of the rows of the embeddings table
    facts,                    \* number of rows of the facts table
    nextId,                   \* randomUUID(): the next fresh id
    lastHybridDegradedLogTs,  \* module-level variable of index.ts
    degradedWarnTs,           \* timestamps of the degradation warnings emitted
    inFlight,                 \* agent_end calls that have read their dedupe window
    waiting,                  \* the recall call whose probe is in flight, if any
    out                       \* what the last handler call returned / logged

vars == <<pluginConfig, now, ticks, items, embeddings, facts, nextId,
          lastHybridDegradedLogTs, degradedWarnTs, inFlight, waiting, out>>

-----------------------------------------------------------------------------
(* Bounds of the model *)

MaxItems == 2
MaxTicks == 1
MaxFacts == 1
BulkCount == 22
MaxCaptures == 3
MaxText == 3
MaxHashText == 2
MaxHistory == 17
MaxInFlight == 2
ProbeTick == 250             \* ms between two looks at a probe in flight

-----------------------------------------------------------------------------
(* Values *)

Null == "~null"              \* JavaScript null / SQL NULL in a string column
None == {}                   \* an omitted (undefined) optional parameter
Some(v) == {v}
Coalesce(opt, dflt) == IF opt = {} THEN dflt ELSE CHOOSE v \in opt : TRUE

Min(a, b) == IF a < b THEN a ELSE b
Max(a, b) == IF a > b THEN a ELSE b
Clamp(lo, hi, v) == Max(lo, Min(hi, v))

\* Time.  TLC's integers have 32 bits and Date.now() in ms does not fit, so the model
\* counts time in seconds: every ms quantity of the source is written without its
\* factor 1000 (1000 * 60 * 60 ms is 60 * 60 here), and the clock has whole seconds.
Minute == 1 * 60
Hour == 60 * 60
Day == 24 * 60 * 60
StartTime == 20000 * Day     \* the clock reading when the process starts

OpenMarker == "<relevant-memories>"
CloseMarker == "</relevant-memories>"
OpenMarkerUpper == "<RELEVANT-MEMORIES>"
ShortOpenMarker == "<short-term-memory>"
ShortCloseMarker == "</short-term-memory>"

-----------------------------------------------------------------------------
(* Strings *)

Whitespace == {" ", "\n"}
UpperCase == {"A", "B", "C", "O", "K"}
LowerCase ==
    <<"a", "b", "c", "d", "e", "f", "g", "h", "i", "j", "k", "l", "m",
      "n", "o", "p", "q", "r", "s", "t", "u", "v", "w", "x", "y", "z">>
Letters == {LowerCase[i] : i \in 1..Len(LowerCase)} \cup UpperCase

ShortHeader == "Recent messages (same session):"
Paragraph == "a word of 100 lower case letters"
RelevantHeader == "The following memories may be relevant to this conversation:"
UserPrefix == "[role: user] "
AssistantPrefix == "[role: assistant] "
Bullet == "- "

\* The tokens of more than one character, all of which hold a letter.
WordTokens ==
    { OpenMarker, CloseMarker, ShortOpenMarker, ShortCloseMarker, ShortHeader,
      RelevantHeader, UserPrefix, AssistantPrefix, OpenMarkerUpper, Paragraph }

CharLen(tok) ==
    CASE tok = OpenMarker -> 19
      [] tok = CloseMarker -> 20
      [] tok = OpenMarkerUpper -> 19
      [] tok = ShortOpenMarker -> 19
      [] tok = ShortCloseMarker -> 20
      [] tok = ShortHeader -> 31
      [] tok = RelevantHeader -> 60
      [] tok = UserPrefix -> 13
      [] tok = AssistantPrefix -> 18
      [] tok = Bullet -> 2
      [] tok = Paragraph -> 100
      [] OTHER -> 1

RECURSIVE TextLen(_)
TextLen(s) == IF s = <<>> THEN 0 ELSE CharLen(Head(s)) + TextLen(Tail(s))

RECURSIVE TrimLeft(_)
TrimLeft(s) ==
    IF s = <<>> THEN s
    ELSE IF Head(s) \in Whitespace THEN TrimLeft(Tail(s)) ELSE s

RECURSIVE TrimRight(_)
TrimRight(s) ==
    IF s = <<>> THEN s
    ELSE IF s[Len(s)] \in Whitespace THEN TrimRight(SubSeq(s, 1, Len(s) - 1)) ELSE s

Trim(s) == TrimRight(TrimLeft(s))

\* s.slice(0, n): the longest prefix of whole tokens with at most n characters
RECURSIVE SliceChars(_, _)
SliceChars(s, n) ==
    IF s = <<>> \/ CharLen(Head(s)) > n THEN <<>>
    ELSE <<Head(s)>> \o SliceChars(Tail(s), n - CharLen(Head(s)))

Ellipsis == "..."            \* the one character U+2026

Includes(s, tok) == \E i \in 1..Len(s) : s[i] = tok

IndexOf(s, tok) ==
    IF Includes(s, tok) THEN CHOOSE i \in 1..Len(s) : s[i] = tok /\ \A j \in 1..(i - 1) : s[j] # tok
    ELSE 0

LowerChar(c) ==
    CASE c = "A" -> "a" [] c = "B" -> "b" [] c = "C" -> "c"
      [] c = "O" -> "o" [] c = "K" -> "k"
      [] c = OpenMarkerUpper -> OpenMarker [] OTHER -> c

toLowerCase(s) == [i \in 1..Len(s) |-> LowerChar(s[i])]

\* .replace(/\s+/g, " ")
RECURSIVE CollapseWhitespace(_)
CollapseWhitespace(s) ==
    IF s = <<>> THEN s
    ELSE IF Head(s) \in Whitespace THEN <<" ">> \o CollapseWhitespace(TrimLeft(s))
    ELSE <<Head(s)>> \o CollapseWhitespace(Tail(s))

\* .replace(/<relevant-memories>[\s\S]*?<\/relevant-memories>/g, " ")
RECURSIVE StripRelevantBlocks(_)
StripRelevantBlocks(s) ==
    IF s = <<>> THEN s
    ELSE IF Head(s) = OpenMarker /\ Includes(Tail(s), CloseMarker)
         THEN <<" ">> \o StripRelevantBlocks(
                  SubSeq(Tail(s), IndexOf(Tail(s), CloseMarker) + 1, Len(Tail(s))))
    ELSE <<Head(s)>> \o StripRelevantBlocks(Tail(s))

normalizeForDedupe(text) ==
    toLowerCase(Trim(CollapseWhitespace(StripRelevantBlocks(text))))

\* sha1 hex digest: collision free on the texts of the model
textHash(text) == <<"sha1">> \o text

AckTokens ==
    { <<"o","k">>, <<"o","k","a","y">>, <<"k","k">>,
      <<"m","e","r","c","i">>, <<"t","h","a","n","k","s">>, <<"t","h","x">>,
      <<"o","u","i">>, <<"n","o","n">>, <<"y","e","p">>, <<"n","o","p","e">>,
      <<"thumbs-up">>, <<"ok-hand">>, <<"check-mark">>, <<"o","k",".">> }

Digits == {"1"}

HasLetterOrNumber(t) ==
    \E i \in 1..Len(t) :
        t[i] \in Letters \cup Digits \cup WordTokens

\* The acknowledgement pattern without its anchors: it matches anywhere in the text.
shouldSkipCaptureUnanchored(text, minChars) ==
    LET t == Trim(text) IN
    \/ t = <<>>
    \/ (minChars > 0 /\ TextLen(t) < minChars)
    \/ ~HasLetterOrNumber(t)
    \/ \E i \in 1..Len(t) : \E j \in i..Len(t) : toLowerCase(SubSeq(t, i, j)) \in AckTokens

shouldSkipCapture(text, minChars) ==
    LET t == Trim(text) IN
    \/ t = <<>>
    \/ (minChars > 0 /\ TextLen(t) < minChars)
    \/ ~HasLetterOrNumber(t)
    \/ toLowerCase(t) \in AckTokens

ContainsInjected(c) == Includes(c.text, OpenMarker)

\* A text property that is null or undefined.
Missing == <<"~undefined">>

\* String(c.text ?? "")
StringOfText(text) == IF text = Missing THEN <<>> ELSE text

\* The filters run before the texts are trimmed.
sanitizeCapturesFilterFirst(captures) ==
    LET nonEmpty == SelectSeq(captures, LAMBDA c : Len(StringOfText(c.text)) > 0)
        clean == SelectSeq(nonEmpty, LAMBDA c : ~ContainsInjected(c))
    IN [i \in 1..Len(clean) |->
           [role |-> clean[i].role, text |-> Trim(StringOfText(clean[i].text))]]

\* Acknowledgements are dropped as well.
sanitizeCapturesDropAck(captures) ==
    LET trimmed == [i \in 1..Len(captures) |->
                       [role |-> captures[i].role,
                        text |-> Trim(StringOfText(captures[i].text))]]
        nonEmpty == SelectSeq(trimmed, LAMBDA c : Len(c.text) > 0)
    IN SelectSeq(nonEmpty,
                 LAMBDA c : ~ContainsInjected(c) /\ toLowerCase(c.text) \notin AckTokens)

sanitizeCaptures(captures) ==
    LET trimmed == [i \in 1..Len(captures) |->
                       [role |-> captures[i].role,
                        text |-> Trim(StringOfText(captures[i].text))]]
        nonEmpty == SelectSeq(trimmed, LAMBDA c : Len(c.text) > 0)
    IN SelectSeq(nonEmpty, LAMBDA c : ~ContainsInjected(c))

-----------------------------------------------------------------------------
(* Configuration *)

DefaultConfig ==
    [ mode |-> None, ollamaTimeoutMs |-> None,
      captureMaxPerTurn |-> None, captureMinChars |-> None,
      captureDedupeWindowMs |-> None, retentionDays |-> None,
      retentionProtectedTags |-> None ]

getCfg(raw) ==
    [ topK |-> 5,
      candidates |-> 50,
      mode |-> IF raw.mode = Some("hybrid") THEN "hybrid" ELSE "lexical",
      ollamaTimeoutMs |-> Clamp(250, 60000, Coalesce(raw.ollamaTimeoutMs, 3000)),
      captureMaxPerTurn |-> Clamp(1, 50, Coalesce(raw.captureMaxPerTurn, 20)),
      captureMinChars |-> Clamp(0, 500, Coalesce(raw.captureMinChars, 16)),
      captureMaxChars |-> 4000,
      captureDedupeWindowMs |->
          Clamp(0, 60 * 60 * 24 * 30,
                Coalesce(raw.captureDedupeWindowMs, 60 * 60 * 24)),
      captureDedupeMaxCheck |-> 300,
      retentionDays |->
          IF raw.retentionDays = None THEN None
          ELSE Some(Clamp(1, 3650, Coalesce(raw.retentionDays, 0))),
      retentionProtectedTags |-> Coalesce(raw.retentionProtectedTags, <<"personal">>) ]

-----------------------------------------------------------------------------
(* The result of a handler call *)

NoOut ==
    [ op |-> "none", threw |-> FALSE, logged |-> {}, n |-> 0, stored |-> 0,
      disp |-> <<>>, params |-> <<>>, rows |-> {}, fault |-> "none", probe |-> "none",
      calls |-> {}, kind |-> "none", results |-> <<>>, context |-> <<>>,
      cleaned |-> <<>>, sample |-> {} ]

-----------------------------------------------------------------------------
(* The store (core package): rows of the items table *)

NoHash == <<>>               \* a meta column without an "h" key

Item(id, createdAt, text, tags, h, entity, process, session) ==
    [ id |-> id, created_at |-> createdAt, text |-> text, tags |-> tags, h |-> h,
      entity_id |-> entity, process_id |-> process, session_id |-> session ]

-----------------------------------------------------------------------------
(* agent_end: auto-capture *)

\* The try block ends before the dedupe query.
agentEndTryScopeShort == {"openDb", "initSchema", "runMigrations"}

\* The stages of the agent_end handler that lie inside its try block.
agentEndTryScope ==
    {"openDb", "initSchema", "runMigrations", "dedupeQuery", "addItem", "insertFact"}

\* Messages of every role are taken.
ExtractMessageAnyRole(msg) ==
    IF ~msg.isObject THEN <<>>
    ELSE IF msg.content.kind = "string"
         THEN << [role |-> msg.role, text |-> msg.content.text] >>
    ELSE IF msg.content.kind = "array"
         THEN LET textBlocks == SelectSeq(msg.content.blocks, LAMBDA b : b.type = "text")
              IN [i \in 1..Len(textBlocks) |-> [role |-> msg.role, text |-> textBlocks[i].text]]
    ELSE <<>>

\* One message of event.messages -> its {role, text} pairs.
ExtractMessage(msg) ==
    IF ~msg.isObject THEN <<>>
    ELSE IF msg.role \notin {"user", "assistant"} THEN <<>>
    ELSE IF msg.content.kind = "string"
         THEN << [role |-> msg.role, text |-> msg.content.text] >>
    ELSE IF msg.content.kind = "array"
         THEN LET textBlocks == SelectSeq(msg.content.blocks, LAMBDA b : b.type = "text")
              IN [i \in 1..Len(textBlocks) |-> [role |-> msg.role, text |-> textBlocks[i].text]]
    ELSE <<>>

RECURSIVE ExtractCaptures(_)
ExtractCaptures(msgs) ==
    IF msgs = <<>> THEN <<>>
    ELSE ExtractMessage(Head(msgs)) \o ExtractCaptures(Tail(msgs))

\* SELECT meta FROM items WHERE created_at >= cutoff ORDER BY created_at DESC LIMIT maxCheck:
\* the sets of rows the query can return (rows of equal created_at come in any order).
RecentRowSets(rows, cutoff, maxCheck) ==
    LET inWindow == {r \in rows : r.created_at >= cutoff} IN
    IF Cardinality(inWindow) <= maxCheck THEN {inWindow}
    ELSE { S \in SUBSET inWindow :
             /\ Cardinality(S) = maxCheck
             /\ \A r \in S : \A q \in inWindow \ S : r.created_at >= q.created_at }

\* The pattern never matches the meta column.
HashesOfNoMatch(rows) == {}

\* m.match(/"h"\s*:\s*"([a-f0-9]{40})"/i)
HashesOf(rows) == {r.h : r \in {q \in rows : q.h # NoHash}}

\* The hash of a candidate is not remembered.
recentHashesKeep(recentHashes, h) == recentHashes

\* recentHashes.add(h)
recentHashesAdd(recentHashes, h) == recentHashes \cup {h}

\* The window is not looked at.
IsDuplicateAnyWindow(cfg, recentHashes, h) == h \in recentHashes

IsDuplicate(cfg, recentHashes, h) ==
    cfg.captureDedupeWindowMs > 0 /\ h \in recentHashes

\* The loop runs over every candidate.
LoopBoundUncapped(cfg, cleaned) == Len(cleaned)

LoopBound(cfg, cleaned) == Min(cfg.captureMaxPerTurn, Len(cleaned))

clip(text, maxChars) ==
    IF TextLen(text) > maxChars THEN Append(SliceChars(text, maxChars), Ellipsis) ELSE text

\* The cap counts the items stored, not the candidates looked at: a candidate skipped
\* as noise or as a duplicate leaves room for a later one.
RECURSIVE StoreLoopCountsStored(_, _, _, _, _, _)
StoreLoopCountsStored(i, cleaned, cfg, event, failAt, acc) ==
    IF acc.threw \/ i > Len(cleaned) \/ Len(acc.added) >= cfg.captureMaxPerTurn THEN acc
    ELSE LET role == cleaned[i].role
             text == cleaned[i].text
             h == textHash(normalizeForDedupe(text))
         IN
         IF shouldSkipCapture(text, cfg.captureMinChars)
         THEN StoreLoopCountsStored(i + 1, cleaned, cfg, event, failAt,
                        [acc EXCEPT !.disp = Append(@, "noise")])
         ELSE IF IsDuplicate(cfg, acc.recentHashes, h)
         THEN StoreLoopCountsStored(i + 1, cleaned, cfg, event, failAt,
                        [acc EXCEPT !.disp = Append(@, "duplicate")])
         ELSE IF acc.calls + 1 = failAt
         THEN [acc EXCEPT !.recentHashes = recentHashesAdd(@, h), !.calls = @ + 1,
                          !.threw = TRUE, !.disp = Append(@, "failed")]
         ELSE StoreLoopCountsStored(i + 1, cleaned, cfg, event, failAt,
                  [acc EXCEPT
                      !.recentHashes = recentHashesAdd(@, h),
                      !.calls = @ + 1,
                      !.added = Append(@,
                          Item(nextId + Len(acc.added), now,
                               clip(text, cfg.captureMaxChars), role, h,
                               IF role = "user" THEN "user" ELSE "agent",
                               "akasha", event.sessionKey)),
                      !.disp = Append(@, "stored")])

\* The store loop from candidate i on.  acc: the set recentHashes, the items inserted
\* so far, the number of addItem calls, whether addItem threw, and what became of
\* each candidate looked at.  failAt: the addItem call that throws (0: none).
RECURSIVE StoreLoop(_, _, _, _, _, _)
StoreLoop(i, cleaned, cfg, event, failAt, acc) ==
    IF acc.threw \/ i > LoopBound(cfg, cleaned) THEN acc
    ELSE LET role == cleaned[i].role
             text == cleaned[i].text
             h == textHash(normalizeForDedupe(text))
         IN
         IF shouldSkipCapture(text, cfg.captureMinChars)
         THEN StoreLoop(i + 1, cleaned, cfg, event, failAt,
                        [acc EXCEPT !.disp = Append(@, "noise")])
         ELSE IF IsDuplicate(cfg, acc.recentHashes, h)
         THEN StoreLoop(i + 1, cleaned, cfg, event, failAt,
                        [acc EXCEPT !.disp = Append(@, "duplicate")])
         ELSE IF acc.calls + 1 = failAt
         THEN [acc EXCEPT !.recentHashes = recentHashesAdd(@, h), !.calls = @ + 1,
                          !.threw = TRUE, !.disp = Append(@, "failed")]
         ELSE StoreLoop(i + 1, cleaned, cfg, event, failAt,
                  [acc EXCEPT
                      !.recentHashes = recentHashesAdd(@, h),
                      !.calls = @ + 1,
                      !.added = Append(@,
                          Item(nextId + Len(acc.added), now,
                               clip(text, cfg.captureMaxChars), role, h,
                               IF role = "user" THEN "user" ELSE "agent",
                               "akasha", event.sessionKey)),
                      !.disp = Append(@, "stored")])

Range(f) == {f[i] : i \in DOMAIN f}

\* What can go wrong in one call of a handler: the call that throws ("none": no
\* call throws) and, for addItem, which of the handler's addItem calls it is.
NoFault == [stage |-> "none", call |-> 0]
StoreFaults == {[stage |-> s, call |-> 0] : s \in {"openDb", "initSchema", "runMigrations"}}
InsertFaults(k) == {[stage |-> "addItem", call |-> c] : c \in 1..k}

EmptyAcc(hashes) ==
    [recentHashes |-> hashes, added |-> <<>>, calls |-> 0, threw |-> FALSE, disp |-> <<>>]

\* The exception raised inside the handler, "none" when it runs to its end.
AgentEndRaised(guardsPass, cleaned, fault, acc) ==
    IF ~guardsPass THEN "none"
    ELSE IF fault \in StoreFaults THEN fault.stage
    ELSE IF cleaned = <<>> THEN "none"
    ELSE IF fault.stage = "dedupeQuery" THEN "dedupeQuery"
    ELSE IF acc.threw THEN "addItem"
    ELSE "none"

\* !v of a flag that may be absent: absent and false are both falsy.
Truthy(opt) == opt = Some(TRUE)

\* The success flag is not looked at.
agentEndGuardsAnyOutcome(event) ==
    event.messages.isArray /\ event.messages.list # <<>>

\* The three early returns: the turn succeeded, messages is an array, not empty.
agentEndGuards(event) ==
    Truthy(event.success) /\ event.messages.isArray /\ event.messages.list # <<>>

\* fault: the call that throws; nf: the facts extractFactsSimple finds (confidence
\* >= 0.6) in the turn and insertFact stores.
agent_end(event, fault, nf) ==
    /\ \E cfg \in {getCfg(pluginConfig)} :
       \E captures \in {ExtractCaptures(event.messages.list)} :
       \E cleaned \in {sanitizeCaptures(captures)} :
       \E guardsPass \in {agentEndGuards(event)} :
       \E reachedLoop \in {guardsPass /\ cleaned # <<>>
                              /\ fault \notin StoreFaults /\ fault.stage # "dedupeQuery"} :
          /\ nextId + LoopBound(cfg, cleaned) <= MaxItems + 1
          /\ fault.stage = "addItem" => fault.call <= LoopBound(cfg, cleaned)
          /\ nf <= Min(MaxFacts - facts, LoopBound(cfg, cleaned))
          \* a call that is never made cannot throw, and finds no fact
          /\ ~guardsPass => fault = NoFault
          /\ nf > 0 => reachedLoop /\ fault = NoFault
          /\ \E recent \in RecentRowSets(items, now - cfg.captureDedupeWindowMs,
                                         cfg.captureDedupeMaxCheck) :
             \E acc \in {IF reachedLoop
                         THEN StoreLoop(1, cleaned, cfg, event, fault.call,
                                        EmptyAcc(HashesOf(recent)))
                         ELSE EmptyAcc({})} :
             \E raised \in {AgentEndRaised(guardsPass, cleaned, fault, acc)} :
                /\ items' = items \cup Range(acc.added)
                /\ nextId' = nextId + Len(acc.added)
                /\ facts' = IF reachedLoop /\ ~acc.threw THEN facts + nf ELSE facts
                /\ out' = [NoOut EXCEPT
                       !.op = "agent_end",
                       !.params = <<event>>,
                       !.threw = (raised # "none" /\ raised \notin agentEndTryScope),
                       !.logged =
                           (IF raised # "none" /\ raised \in agentEndTryScope
                            THEN {"error"} ELSE {})
                           \cup (IF Truthy(event.success) /\ ~event.messages.isArray
                                 THEN {"warn_missing"} ELSE {})
                           \cup (IF reachedLoop /\ ~acc.threw /\ Len(acc.added) > 0
                                 THEN {"info_captured"} ELSE {})
                           \cup (IF reachedLoop /\ ~acc.threw /\ nf > 0
                                 THEN {"info_facts"} ELSE {}),
                       !.n = IF guardsPass /\ fault \notin StoreFaults
                             THEN Len(captures) ELSE 0,
                       !.cleaned = IF guardsPass /\ fault \notin StoreFaults
                                   THEN cleaned ELSE <<>>,
                       !.fault = raised,
                       !.stored = Len(acc.added),
                       !.disp = acc.disp]
    /\ UNCHANGED <<inFlight, waiting, pluginConfig, now, ticks, embeddings,
                   lastHybridDegradedLogTs, degradedWarnTs>>

\* The loop looks at the store again before each insert.
windowSeenFresh(read, stored) == stored

\* The hashes the store loop starts from: those of the rows read before the loop,
\* whatever has been stored since.
windowSeen(read, stored) == read

\* agent_end up to and including the dedupe query, for a call that gets that far.
\* The query and each addItem are statements of their own on the connection the
\* call opened: another connection's statements can run between them.
agentEndRead(event) ==
    /\ Len(inFlight) < MaxInFlight
    /\ \E cfg \in {getCfg(pluginConfig)} :
       \E cleaned \in {sanitizeCaptures(ExtractCaptures(event.messages.list))} :
          /\ agentEndGuards(event) /\ cleaned # <<>>
          /\ \E recent \in RecentRowSets(items, now - cfg.captureDedupeWindowMs,
                                         cfg.captureDedupeMaxCheck) :
                inFlight' = Append(inFlight, [event |-> event, cleaned |-> cleaned,
                                              hashes |-> HashesOf(recent)])
          /\ out' = [NoOut EXCEPT !.op = "agent_end_read", !.cleaned = cleaned]
    /\ UNCHANGED <<waiting, pluginConfig, now, ticks, items, embeddings, facts, nextId,
                   lastHybridDegradedLogTs, degradedWarnTs>>

\* The rest of the k-th of these calls: the store loop (no fact is found).
agentEndStore(k) ==
    /\ k \in 1..Len(inFlight)
    /\ \E cfg \in {getCfg(pluginConfig)} :
       \E stored \in RecentRowSets(items, now - cfg.captureDedupeWindowMs,
                                    cfg.captureDedupeMaxCheck) :
       \E acc \in {StoreLoop(1, inFlight[k].cleaned, cfg, inFlight[k].event, 0,
                              EmptyAcc(windowSeen(inFlight[k].hashes, HashesOf(stored))))} :
          /\ nextId + Len(acc.added) <= MaxItems + 1
          /\ items' = items \cup Range(acc.added)
          /\ nextId' = nextId + Len(acc.added)
          /\ out' = [NoOut EXCEPT
                 !.op = "agent_end",
                 !.logged = IF Len(acc.added) > 0 THEN {"info_captured"} ELSE {},
                 !.n = Len(inFlight[k].cleaned),
                 !.cleaned = inFlight[k].cleaned,
                 !.rows = inFlight[k].hashes,
                 !.stored = Len(acc.added),
                 !.disp = acc.disp]
    /\ inFlight' = SubSeq(inFlight, 1, k - 1) \o SubSeq(inFlight, k + 1, Len(inFlight))
    /\ UNCHANGED <<waiting, pluginConfig, now, ticks, embeddings, facts,
                   lastHybridDegradedLogTs, degradedWarnTs>>

-----------------------------------------------------------------------------
(* memory_store *)

memory_store(params, fault) ==
    /\ nextId <= MaxItems
    /\ IF fault \in StoreFaults \/ fault.stage = "addItem"
       THEN /\ out' = [NoOut EXCEPT !.op = "memory_store", !.threw = TRUE]
            /\ UNCHANGED <<items, nextId>>
       ELSE /\ items' = items \cup
                  { Item(nextId, now, params.text,
                         IF params.category \in {None, Some("")} THEN Null
                         ELSE Coalesce(params.category, Null),
                         NoHash,
                         Coalesce(params.entityId, Null), "akasha",
                         Coalesce(params.sessionId, Null)) }
            /\ nextId' = nextId + 1
            /\ out' = [NoOut EXCEPT !.op = "memory_store", !.stored = 1]
    /\ UNCHANGED <<inFlight, waiting, pluginConfig, now, ticks, embeddings, facts,
                   lastHybridDegradedLogTs, degradedWarnTs>>

-----------------------------------------------------------------------------
(* memory_gc *)

\* Only the first protected tag is compared.
whereProtectFirst(protectedTags, tags) ==
    protectedTags = <<>> \/ tags = Null \/ tags # Head(protectedTags)

\* AND tags NOT IN (...): in SQL a NULL tag fails the test.
whereProtectNotNull(protectedTags, tags) ==
    protectedTags = <<>> \/ (tags # Null /\ tags \notin Range(protectedTags))

\* AND (tags IS NULL OR tags NOT IN (...)), left out when there is no protected tag
whereProtect(protectedTags, tags) ==
    protectedTags = <<>> \/ tags = Null \/ tags \notin Range(protectedTags)

\* ORDER BY created_at DESC LIMIT lim
NewestRowSets(rows, lim) ==
    IF Cardinality(rows) <= lim THEN {rows}
    ELSE LET last == CHOOSE t \in {r.created_at : r \in rows} :
                         /\ Cardinality({r \in rows : r.created_at > t}) < lim
                         /\ Cardinality({r \in rows : r.created_at >= t}) >= lim
             before == {r \in rows : r.created_at > last}
         IN { before \cup T :
                T \in {U \in SUBSET {r \in rows : r.created_at = last} :
                          Cardinality(U) = lim - Cardinality(before)} }

\* ORDER BY created_at ASC LIMIT lim: the sets of rows the query can return
\* (rows of equal created_at come in any order).
OldestRowSets(rows, lim) ==
    IF Cardinality(rows) <= lim THEN {rows}
    ELSE LET last == CHOOSE t \in {r.created_at : r \in rows} :
                         /\ Cardinality({r \in rows : r.created_at < t}) < lim
                         /\ Cardinality({r \in rows : r.created_at <= t}) >= lim
             before == {r \in rows : r.created_at < last}
         IN { before \cup T :
                T \in {U \in SUBSET {r \in rows : r.created_at = last} :
                          Cardinality(U) = lim - Cardinality(before)} }

\* A horizon of 30 days when none is set.
daysOfDefault(retentionDays, configured) ==
    IF retentionDays # None THEN retentionDays
    ELSE IF configured # None THEN configured ELSE Some(30)

\* const days = retentionDays ?? cfg.retentionDays
daysOf(retentionDays, configured) ==
    IF retentionDays # None THEN retentionDays ELSE configured

\* Only dryRun = true is a dry run.
IsDryRunExplicit(dryRun) == dryRun = Some(TRUE)

\* if (dryRun !== false)
IsDryRun(dryRun) == dryRun # Some(FALSE)

sampleMax == 20

GcRow(r) == [id |-> r.id, created_at |-> r.created_at, tags |-> r.tags]

\* The calls of a live run that can throw once the rows are selected.
GcFaults == {[stage |-> s, call |-> 0] : s \in {"deleteEmbeddings", "deleteItems", "vacuum"}}

\* The function handed to db.transaction: nothing when no row is selected, else
\* DELETE FROM embeddings, then DELETE FROM items, on the connection's working
\* copy of the store.  A statement that throws leaves the copy as it was before it.
GcTxBody(store, ids, fault) ==
    IF ids = {}
    THEN [store |-> store, threw |-> FALSE, deletedItems |-> 0, deletedEmbeddings |-> 0]
    ELSE IF fault.stage = "deleteEmbeddings"
    THEN [store |-> store, threw |-> TRUE, deletedItems |-> 0, deletedEmbeddings |-> 0]
    ELSE IF fault.stage = "deleteItems"
    THEN [store |-> [store EXCEPT !.embeddings = @ \ ids], threw |-> TRUE,
          deletedItems |-> 0, deletedEmbeddings |-> 0]
    ELSE [store |-> [items |-> {r \in store.items : r.id \notin ids},
                     embeddings |-> store.embeddings \ ids],
          threw |-> FALSE,
          deletedItems |-> Cardinality({r \in store.items : r.id \in ids}),
          deletedEmbeddings |-> Cardinality(store.embeddings \cap ids)]

\* The statements run one by one, each committed on its own.
transactionAutocommit(pre, res) == res

\* db.transaction(fn)(): commits what fn did when it returns, rolls back to the
\* store as it was when fn throws, and throws again.
transaction(pre, res) == IF res.threw THEN [res EXCEPT !.store = pre] ELSE res

memory_gc(params, fault) ==
    /\ \E cfg \in {getCfg(pluginConfig)} :
       \E days \in {daysOf(params.retentionDays, cfg.retentionDays)} :
          IF fault \in StoreFaults
          THEN /\ out' = [NoOut EXCEPT !.op = "memory_gc", !.threw = TRUE,
                                      !.fault = fault.stage, !.params = <<params>>]
               /\ UNCHANGED <<items, embeddings>>
          ELSE IF days = None
          THEN /\ out' = [NoOut EXCEPT !.op = "memory_gc", !.kind = "skipped",
                                      !.params = <<params>>]
               /\ UNCHANGED <<items, embeddings>>
          ELSE \E protectedTags \in {Coalesce(params.protectTags, cfg.retentionProtectedTags)} :
               \E cutoff \in {now - Coalesce(days, 0) * 24 * 60 * 60} :
               \E lim \in {Clamp(1, 5000, Coalesce(params.limit, 1000))} :
               \E rows \in OldestRowSets({r \in items : r.created_at < cutoff
                                             /\ whereProtect(protectedTags, r.tags)}, lim) :
               \E ids \in {{r.id : r \in rows}} :
                  IF IsDryRun(params.dryRun)
                  THEN /\ \E sample \in OldestRowSets(rows, sampleMax) :
                            out' = [NoOut EXCEPT
                              !.op = "memory_gc", !.kind = "dryRun", !.n = Cardinality(ids),
                              !.rows = {GcRow(r) : r \in rows},
                              !.sample = {GcRow(r) : r \in sample},
                              !.params = <<params>>]
                       /\ UNCHANGED <<items, embeddings>>
                  ELSE \E res \in {transaction([items |-> items, embeddings |-> embeddings],
                                               GcTxBody([items |-> items,
                                                         embeddings |-> embeddings],
                                                        ids, fault))} :
                       /\ embeddings' = res.store.embeddings
                       /\ items' = res.store.items
                       /\ out' = IF res.threw
                                 THEN [NoOut EXCEPT
                                         !.op = "memory_gc", !.threw = TRUE,
                                         !.fault = fault.stage,
                                         !.rows = {GcRow(r) : r \in rows},
                                         !.params = <<params>>]
                                 ELSE [NoOut EXCEPT
                                         !.op = "memory_gc", !.kind = "deleted",
                                         !.n = res.deletedItems,
                                         !.stored = res.deletedEmbeddings,
                                         !.rows = {GcRow(r) : r \in rows},
                                         !.params = <<params>>]
    /\ UNCHANGED <<inFlight, waiting, pluginConfig, now, ticks, facts, nextId,
                   lastHybridDegradedLogTs, degradedWarnTs>>

-----------------------------------------------------------------------------
(* recall: lexical search, or hybrid search behind a liveness probe *)

\* A sequence of the elements of the set S of rows, by created_at (newest first
\* when desc, else oldest first), rows of equal created_at by id.
RECURSIVE SortRows(_, _)
SortRows(S, desc) ==
    IF S = {} THEN <<>>
    ELSE LET first == CHOOSE r \in S : \A q \in S :
                          IF desc
                          THEN r.created_at > q.created_at
                               \/ (r.created_at = q.created_at /\ r.id >= q.id)
                          ELSE r.created_at < q.created_at
                               \/ (r.created_at = q.created_at /\ r.id <= q.id)
         IN <<first>> \o SortRows(S \ {first}, desc)

Take(s, n) == SubSeq(s, 1, Min(n, Len(s)))

Reverse(s) == [i \in 1..Len(s) |-> s[Len(s) + 1 - i]]

Words(text) == {toLowerCase(text)[i] : i \in {j \in 1..Len(text) : text[j] \in Letters}}

\* searchItems(db, query, topK).results of the core: the rows whose text holds a word
\* of the query, best match first (here: newest first).
searchItems(rows, query, topK) ==
    Take(SortRows({r \in rows : Words(r.text) \cap Words(query) # {}}, TRUE), topK)

MatchesFilter(r, filter) ==
    /\ filter.entity_id # Null => r.entity_id = filter.entity_id
    /\ filter.process_id # Null => r.process_id = filter.process_id
    /\ filter.session_id # Null => r.session_id = filter.session_id

NoFilter == [entity_id |-> Null, process_id |-> Null, session_id |-> Null]

\* hybridSearch / hybridSearchFiltered of the core: the lexical candidates, ranked
\* again by the semantic score (here: oldest first).
hybridSearch(rows, query, topK, candidates) ==
    Take(Reverse(searchItems(rows, query, candidates)), topK)

hybridSearchFiltered(rows, query, topK, candidates, filter) ==
    Take(Reverse(searchItems({r \in rows : MatchesFilter(r, filter)}, query, candidates)), topK)

ProbeOutcomes == {"ok", "http_error", "timeout", "network_error"}

\* The response's ok flag is not looked at.
ProbeFailedOnReject(probe) == probe \in {"timeout", "network_error"}

\* The try block around the probe: fetch rejects (timeout, network error), or the
\* response is not ok and the block throws itself.
ProbeFailed(probe) == probe # "ok"

intervalMs == 60 * 60

\* The interval is a minute.
DegradedLogSuppressedMinute(t, last) == t - last < 60

\* maybeLogHybridDegraded returns without logging
DegradedLogSuppressed(t, last) == t - last < intervalMs

RecallResult(threw, kind, results, calls, degraded) ==
    [threw |-> threw, kind |-> kind, results |-> results, calls |-> calls,
     degraded |-> degraded]

\* AbortSignal.timeout is never due.
probeDueNever(cfg, elapsed) == FALSE

\* AbortSignal.timeout(Math.min(cfg.ollamaTimeoutMs, 800)): the fetch is aborted
\* once that many ms have passed without a response.
probeDue(cfg, elapsed) == elapsed >= Min(cfg.ollamaTimeoutMs, 800)

\* fault: the call that throws; probe: what the fetch of /v1/embeddings does.
recall(query, limit, filter, fault, probe) ==
    LET cfg == getCfg(pluginConfig)
        topK == Clamp(1, 20, Coalesce(limit, cfg.topK))
        lexical == searchItems(items, query, topK)
    IN
    IF fault \in StoreFaults THEN RecallResult(TRUE, "none", <<>>, {}, FALSE)
    ELSE IF cfg.mode = "hybrid"
    THEN IF ProbeFailed(probe)
         THEN IF fault.stage = "searchItems"
              THEN RecallResult(TRUE, "none", <<>>, {"fetch", "searchItems"}, TRUE)
              ELSE RecallResult(FALSE, "lexical", lexical, {"fetch", "searchItems"}, TRUE)
         ELSE IF fault.stage = "searchItems"
              THEN RecallResult(TRUE, "none", <<>>, {"fetch", "searchItems"}, FALSE)
         ELSE IF filter # NoFilter
              THEN IF fault.stage = "hybridSearch"
                   THEN RecallResult(TRUE, "none", <<>>,
                            {"fetch", "searchItems", "hybridSearchFiltered"}, FALSE)
                   ELSE RecallResult(FALSE, "hybrid",
                            hybridSearchFiltered(items, query, topK, cfg.candidates, filter),
                            {"fetch", "searchItems", "hybridSearchFiltered"}, FALSE)
         ELSE IF fault.stage = "hybridSearch"
              THEN RecallResult(TRUE, "none", <<>>,
                       {"fetch", "searchItems", "hybridSearch"}, FALSE)
              ELSE RecallResult(FALSE, "hybrid", hybridSearch(items, query, topK, cfg.candidates),
                       {"fetch", "searchItems", "hybridSearch"}, FALSE)
    ELSE IF fault.stage = "searchItems"
         THEN RecallResult(TRUE, "none", <<>>, {"searchItems"}, FALSE)
         ELSE RecallResult(FALSE, "lexical", lexical, {"searchItems"}, FALSE)

\* The effect of a recall on the module state: maybeLogHybridDegraded when it
\* degraded, and the embeddings hybrid search computes and keeps.
RecallEffects(r) ==
    /\ IF r.degraded /\ ~DegradedLogSuppressed(now, lastHybridDegradedLogTs)
       THEN /\ lastHybridDegradedLogTs' = now
            /\ degradedWarnTs' = Append(degradedWarnTs, now)
       ELSE UNCHANGED <<lastHybridDegradedLogTs, degradedWarnTs>>
    /\ embeddings' = IF r.kind = "hybrid"
                     THEN embeddings \cup {r.results[i].id : i \in 1..Len(r.results)}
                     ELSE embeddings

Ids(results) == [i \in 1..Len(results) |-> results[i].id]

memory_recall(params, fault, probe) ==
    /\ \E r \in {recall(params.query, params.limit,
                        IF params.entityId # None \/ params.processId # None
                              \/ params.sessionId # None
                        THEN [entity_id |-> Coalesce(params.entityId, Null),
                              process_id |-> Coalesce(params.processId, Null),
                              session_id |-> Coalesce(params.sessionId, Null)]
                        ELSE NoFilter,
                        fault, probe)} :
          /\ RecallEffects(r)
          /\ out' = [NoOut EXCEPT
                 !.op = "memory_recall", !.threw = r.threw,
                 !.fault = IF r.threw THEN fault.stage ELSE "none",
                 !.probe = IF "fetch" \in r.calls THEN probe ELSE "none",
                 !.calls = r.calls, !.kind = r.kind, !.results = Ids(r.results),
                 !.params = <<params>>,
                 !.logged = IF lastHybridDegradedLogTs' # lastHybridDegradedLogTs
                            THEN {"warn_degraded"} ELSE {}]
    /\ UNCHANGED <<inFlight, pluginConfig, now, ticks, items, facts, nextId>>

-----------------------------------------------------------------------------
(* before_agent_start: auto-recall *)

\* recall is awaited outside the try block.
beforeAgentStartTryScopeShort == {"openDb", "initSchema", "runMigrations", "shortTermQuery"}

\* The stages of the before_agent_start handler that lie inside its try block.
beforeAgentStartTryScope ==
    {"openDb", "initSchema", "runMigrations", "shortTermQuery", "recall"}

maxMsgs == 15
maxChars == 2000
minPromptChars == 5

snippetOf(text, max) ==
    LET t == Trim(CollapseWhitespace(text))
    IN IF TextLen(t) > max THEN Append(SliceChars(t, max), Ellipsis) ELSE t

\* The loop with continue in the place of its second break: a line that overflows is
\* passed over and the scan goes on.
RECURSIVE ShortTermLinesSkipOverflow(_, _, _, _)
ShortTermLinesSkipOverflow(rows, count, chars, lines) ==
    IF rows = <<>> \/ count >= maxMsgs \/ chars >= maxChars THEN lines
    ELSE LET r == Head(rows)
             snippet == snippetOf(r.text, 300)
             line == <<IF r.tags = "assistant" THEN AssistantPrefix ELSE UserPrefix>>
                     \o snippet
         IN IF snippet = <<>> \/ chars + TextLen(line) > maxChars
            THEN ShortTermLinesSkipOverflow(Tail(rows), count, chars, lines)
            ELSE ShortTermLinesSkipOverflow(Tail(rows), count + 1, chars + TextLen(line),
                                            Append(lines, line))

\* `[role: ${role}] ${snippet}`
ShortTermLine(row) ==
    <<IF row.tags = "assistant" THEN AssistantPrefix ELSE UserPrefix>>
    \o snippetOf(row.text, 300)

\* The loop over the session's rows, oldest first: the lines of the block.
RECURSIVE ShortTermLines(_, _, _, _)
ShortTermLines(rows, count, chars, lines) ==
    IF rows = <<>> \/ count >= maxMsgs \/ chars >= maxChars THEN lines
    ELSE IF snippetOf(Head(rows).text, 300) = <<>>
         THEN ShortTermLines(Tail(rows), count, chars, lines)
    ELSE IF chars + TextLen(ShortTermLine(Head(rows))) > maxChars THEN lines
    ELSE ShortTermLines(Tail(rows), count + 1,
                        chars + TextLen(ShortTermLine(Head(rows))),
                        Append(lines, ShortTermLine(Head(rows))))

RECURSIVE Join(_, _)
Join(lines, sep) ==
    IF lines = <<>> THEN <<>>
    ELSE IF Len(lines) = 1 THEN Head(lines)
    ELSE Head(lines) \o sep \o Join(Tail(lines), sep)

\* The query without its session_id condition.
SessionRowsAnySession(store, sessionId) ==
    Reverse(Take(SortRows({r \in store : r.tags \in {"user", "assistant"}}, TRUE), 50))

\* SELECT ... WHERE session_id = ? AND tags IN ('user','assistant')
\* ORDER BY created_at DESC LIMIT 50, then rows.reverse()
SessionRows(store, sessionId) ==
    Reverse(Take(SortRows({r \in store : r.session_id = sessionId
                                        /\ r.tags \in {"user", "assistant"}}, TRUE), 50))

\* The block around the lines; no lines, no block.
shortTermFrame(found) ==
    IF found = <<>> THEN <<>>
    ELSE <<ShortOpenMarker, "\n", ShortHeader, "\n">> \o Join(found, <<"\n">>)
         \o <<"\n", ShortCloseMarker>>

\* The rows the hook reads: none without a session key.
shortTermRows(store, sessionId) ==
    IF sessionId = Null THEN <<>> ELSE SessionRows(store, sessionId)

shortTermBlock(store, sessionId) ==
    shortTermFrame(ShortTermLines(shortTermRows(store, sessionId), 0, 0, <<>>))

MemoryLine(item) == <<Bullet>> \o snippetOf(item.text, 200) \o <<" ", "(tag src date)">>

recallBlock(results) ==
    IF results = <<>> THEN <<>>
    ELSE <<OpenMarker, "\n", RelevantHeader, "\n">>
         \o Join([i \in 1..Min(3, Len(results)) |-> MemoryLine(results[i])], <<"\n">>)
         \o <<"\n", CloseMarker>>

prependContext(short, long) ==
    Join(SelectSeq(<<short, long>>, LAMBDA b : b # <<>>), <<"\n", "\n">>)

NoRecall == RecallResult(FALSE, "none", <<>>, {}, FALSE)

before_agent_start(event, fault, probe) ==
    /\ \E prompt \in {Trim(event.prompt)} :
       \E tooShort \in {TextLen(prompt) < minPromptChars} :
       \E early \in {IF tooShort THEN "none"
                     ELSE IF fault \in StoreFaults THEN fault.stage
                     ELSE IF event.sessionKey # Null /\ fault.stage = "shortTermQuery"
                          THEN "shortTermQuery" ELSE "none"} :
       \E r \in {IF tooShort \/ early # "none" THEN NoRecall
                 ELSE recall(prompt, Some(3), NoFilter, fault, probe)} :
       \E raised \in {IF early # "none" THEN early
                      ELSE IF r.threw THEN "recall" ELSE "none"} :
       \E rows \in {shortTermRows(items, event.sessionKey)} :
       \E short \in {shortTermFrame(ShortTermLines(rows, 0, 0, <<>>))} :
          /\ RecallEffects(r)
          /\ out' = [NoOut EXCEPT
                 !.op = "before_agent_start",
                 !.threw = (raised # "none" /\ raised \notin beforeAgentStartTryScope),
                 !.fault = IF raised = "none" THEN "none" ELSE fault.stage,
                 !.probe = IF "fetch" \in r.calls THEN probe ELSE "none",
                 !.calls = r.calls,
                 !.kind = r.kind,
                 !.logged =
                     (IF raised # "none" /\ raised \in beforeAgentStartTryScope
                      THEN {"warn_autoRecall"} ELSE {})
                     \cup (IF lastHybridDegradedLogTs' # lastHybridDegradedLogTs
                           THEN {"warn_degraded"} ELSE {})
                     \cup (IF raised = "none" /\ r.results # <<>>
                           THEN {"info_injecting"} ELSE {}),
                 !.params = <<event>>,
                 !.context = IF tooShort \/ raised # "none" THEN <<>>
                             ELSE prependContext(short, recallBlock(r.results))]
    /\ UNCHANGED <<inFlight, pluginConfig, now, ticks, items, facts, nextId>>

-----------------------------------------------------------------------------
(* memory_forget and memory_stats *)

\* The row is kept and its text blanked.
forgetItemsBlank(rows, deleteId) ==
    {IF r.id = deleteId THEN [r EXCEPT !.text = <<>>] ELSE r : r \in rows}

\* Every row with the text of the row named goes with it.
forgetItemsSameText(rows, deleteId) ==
    {r \in rows : \A q \in rows : q.id = deleteId => r.text # q.text}

\* DELETE FROM items WHERE id = ?
forgetItems(rows, deleteId) == {r \in rows : r.id # deleteId}

\* params.memoryId is an optional id, params.query an optional text; an empty query
\* counts as none.
memory_forget(params, fault, probe) ==
    /\ \E hasQuery \in {params.query \notin {None, Some(<<>>)}} :
       \E r \in {IF fault \in StoreFaults \/ params.memoryId # None \/ ~hasQuery
                 THEN NoRecall
                 ELSE recall(Coalesce(params.query, <<>>), Some(5), NoFilter, fault, probe)} :
          /\ RecallEffects(r)
          /\ IF fault \in StoreFaults \/ r.threw
             THEN /\ out' = [NoOut EXCEPT !.op = "memory_forget", !.threw = TRUE,
                                         !.fault = fault.stage, !.params = <<params>>]
                  /\ UNCHANGED items
             ELSE IF params.memoryId = None /\ ~hasQuery
             THEN /\ out' = [NoOut EXCEPT !.op = "memory_forget", !.kind = "error",
                                         !.params = <<params>>]
                  /\ UNCHANGED items
             ELSE IF params.memoryId = None /\ r.results = <<>>
             THEN /\ out' = [NoOut EXCEPT !.op = "memory_forget", !.kind = "noMatch",
                                         !.calls = r.calls, !.params = <<params>>]
                  /\ UNCHANGED items
             ELSE \E deleteId \in (IF params.memoryId # None THEN params.memoryId
                                   ELSE {r.results[1].id}) :
                  /\ items' = forgetItems(items, deleteId)
                  /\ out' = [NoOut EXCEPT
                         !.op = "memory_forget", !.kind = "deleted",
                         !.n = Cardinality({q \in items : q.id = deleteId}),
                         !.results = <<deleteId>>,
                         !.calls = r.calls, !.params = <<params>>]
    /\ UNCHANGED <<inFlight, waiting, pluginConfig, now, ticks, facts, nextId>>

\* SELECT tags as tag, COUNT(*) as c FROM items GROUP BY tags ORDER BY c DESC LIMIT ?
\* Groups with the same count come in any order.
TagCountSets(rows, limit) ==
    LET groups == {[tag |-> t, count |-> Cardinality({r \in rows : r.tags = t})]
                     : t \in {r.tags : r \in rows}}
    IN {G \in SUBSET groups :
          /\ Cardinality(G) = Min(limit, Cardinality(groups))
          /\ \A g \in G : \A h \in groups \ G : g.count >= h.count}

memory_stats(params, fault) ==
    /\ IF fault \in StoreFaults
       THEN out' = [NoOut EXCEPT !.op = "memory_stats", !.threw = TRUE,
                                 !.fault = fault.stage, !.params = <<params>>]
       ELSE \E tags \in (IF params.includeTags = Some(FALSE) THEN {{}}
                          ELSE TagCountSets(items, Clamp(1, 50, Coalesce(params.topTags, 10)))) :
               out' = [NoOut EXCEPT
                         !.op = "memory_stats", !.n = Cardinality(items),
                         !.stored = Cardinality(embeddings), !.rows = tags,
                         !.params = <<params>>]
    /\ UNCHANGED <<inFlight, waiting, pluginConfig, now, ticks, items, embeddings, facts, nextId,
                   lastHybridDegradedLogTs, degradedWarnTs>>

-----------------------------------------------------------------------------
(* The clock *)

Tick(d) ==
    /\ ticks < MaxTicks
    /\ ticks' = ticks + 1
    /\ now' = now + d
    /\ out' = NoOut
    /\ UNCHANGED <<inFlight, waiting, pluginConfig, items, embeddings, facts, nextId,
                   lastHybridDegradedLogTs, degradedWarnTs>>

InitState(raw) ==
    /\ pluginConfig = raw
    /\ inFlight = <<>>
    /\ waiting = None
    /\ now = StartTime
    /\ ticks = 0
    /\ items = {}
    /\ embeddings = {}
    /\ facts = 0
    /\ nextId = 1
    /\ lastHybridDegradedLogTs = 0
    /\ degradedWarnTs = <<>>
    /\ out = NoOut

-----------------------------------------------------------------------------
(* The capture pipeline on its own: turns that end, and time passing *)

StringMsg(role, text) ==
    [ isObject |-> TRUE, role |-> role,
      content |-> [kind |-> "string", text |-> text, blocks |-> <<>>] ]

BlocksMsg(role, blocks) ==
    [ isObject |-> TRUE, role |-> role,
      content |-> [kind |-> "array", text |-> <<>>, blocks |-> blocks] ]

NotAnObject ==
    [ isObject |-> FALSE, role |-> Null,
      content |-> [kind |-> "none", text |-> <<>>, blocks |-> <<>>] ]

Coffee == <<"a", " ", "b">>
CoffeeVariant == <<" ", "A", " ", "\n", "b", " ">>
Tea == <<"c">>

Ok == <<"O", "k">>
Blank == <<" ", "\n">>
WithRelevant == <<OpenMarker, "a", CloseMarker, "c">>
WithShortTerm == <<ShortOpenMarker, "a", ShortCloseMarker, "\n", "c">>

CaptureBatches ==
    { <<>>,
      << StringMsg("user", Coffee) >>,
      << StringMsg("assistant", CoffeeVariant), StringMsg("user", Tea) >>,
      << StringMsg("user", Coffee), StringMsg("assistant", CoffeeVariant) >>,
      << StringMsg("user", Ok), StringMsg("assistant", Blank),
         StringMsg("assistant", WithRelevant), StringMsg("user", WithShortTerm) >>,
      << StringMsg("system", Tea), NotAnObject,
         BlocksMsg("assistant", << [type |-> "text", text |-> Tea],
                                   [type |-> "image", text |-> <<>>],
                                   [type |-> "text", text |-> Coffee] >>) >> }

CaptureEvents ==
    { [success |-> Some(TRUE), messages |-> [isArray |-> TRUE, list |-> b],
       sessionKey |-> IF Len(b) = 3 THEN Null ELSE "s1"]   \* one turn has no session key
        : b \in CaptureBatches }
    \cup { [success |-> Some(FALSE), messages |-> [isArray |-> TRUE, list |-> <<StringMsg("user", Tea)>>],
            sessionKey |-> "s1"],
           [success |-> None, messages |-> [isArray |-> TRUE, list |-> <<StringMsg("user", Tea)>>],
            sessionKey |-> "s1"],
           [success |-> Some(TRUE), messages |-> [isArray |-> FALSE, list |-> <<>>],
            sessionKey |-> "s1"] }

CaptureFaults ==
    {NoFault} \cup StoreFaults \cup {[stage |-> "dedupeQuery", call |-> 0]} \cup InsertFaults(2)

CaptureConfigs ==
    { [DefaultConfig EXCEPT !.captureMaxPerTurn = Some(1), !.captureMinChars = Some(0)],
      [DefaultConfig EXCEPT !.captureMaxPerTurn = Some(2), !.captureMinChars = Some(0)],
      [DefaultConfig EXCEPT !.captureMaxPerTurn = Some(2), !.captureMinChars = Some(0),
                            !.captureDedupeWindowMs = Some(0)] }

-----------------------------------------------------------------------------
(* Recall on its own: memories stored by hand, searched by the tool and the hook *)

Prompt == <<"a", " ", "b", " ", "c">>
OtherPrompt == <<"y", "y", " ", "y", "y">>

\* The database file outlives the process: what earlier runs left in it (ids up to
\* 0), one capture of session s1 and one memory stored by hand without attribution.
SeedItems ==
    { Item(-1, StartTime - Day, Coffee, "user", textHash(normalizeForDedupe(Coffee)),
           "user", "akasha", "s1"),
      Item(0, StartTime - Hour, Tea, Null, NoHash, Null, "akasha", Null) }

RecallParams ==
    { [query |-> Prompt, limit |-> None, entityId |-> None, processId |-> None,
       sessionId |-> None],
      [query |-> <<"c">>, limit |-> Some(1), entityId |-> Some("user"), processId |-> None,
       sessionId |-> None] }

RecallEvents ==
    { [prompt |-> Prompt, sessionKey |-> "s1"],
      [prompt |-> OtherPrompt, sessionKey |-> "s1"],
      [prompt |-> Prompt, sessionKey |-> Null],
      [prompt |-> <<" ", "a", "b", " ">>, sessionKey |-> "s1"] }

\* What the environment does in one call: the call that throws, and the outcome of
\* the probe.  The probe is only made when no earlier call throws, and hybridSearch
\* only runs when the probe is ok.
RecallEnvs ==
    {[fault |-> f, probe |-> "ok"] :
        f \in StoreFaults \cup {[stage |-> s, call |-> 0] : s \in {"shortTermQuery", "hybridSearch"}}}
    \cup {[fault |-> f, probe |-> pr] :
            f \in {NoFault, [stage |-> "searchItems", call |-> 0]}, pr \in ProbeOutcomes}

RecallConfigs ==
    { [DefaultConfig EXCEPT !.mode = Some("hybrid")], DefaultConfig }

InitRecall ==
    \E raw \in RecallConfigs : \E seed \in {{}, SeedItems} :
        /\ pluginConfig = raw
        /\ inFlight = <<>>
        /\ waiting = None
        /\ now = StartTime
        /\ ticks = 0
        /\ items = seed
        /\ embeddings = {}
        /\ facts = 0
        /\ nextId = 1
        /\ lastHybridDegradedLogTs = 0
        /\ degradedWarnTs = <<>>
        /\ out = NoOut

MemoryRecall ==
    /\ \E params \in RecallParams : \E env \in RecallEnvs :
          memory_recall(params, env.fault, env.probe)
    /\ UNCHANGED waiting

BeforeAgentStart ==
    /\ \E event \in RecallEvents : \E env \in RecallEnvs :
          before_agent_start(event, env.fault, env.probe)
    /\ UNCHANGED waiting

ClockRecall == \E d \in {30 * Minute, Hour} : Tick(d)

NextRecall == MemoryRecall \/ BeforeAgentStart \/ ClockRecall

SpecRecall == InitRecall /\ [][NextRecall]_vars

-----------------------------------------------------------------------------
(* Retention on its own: memories stored by hand, time passing, garbage collection *)

\* What earlier runs left in the database: two memories 40 days old, two 2 days old.
SeedGc ==
    { Item(-3, StartTime - 40 * Day, Coffee, "personal", NoHash, Null, "akasha", Null),
      Item(-2, StartTime - 40 * Day, Tea, "work", NoHash, Null, "akasha", Null),
      Item(-1, StartTime - 2 * Day, Tea, Null, NoHash, Null, "akasha", Null),
      Item(0, StartTime - 2 * Day, Coffee, "personal", NoHash, Null, "akasha", Null) }

GcParams ==
    { [dryRun |-> None, retentionDays |-> None, protectTags |-> None, limit |-> None],
      [dryRun |-> Some(FALSE), retentionDays |-> None, protectTags |-> None, limit |-> None],
      [dryRun |-> Some(FALSE), retentionDays |-> Some(1), protectTags |-> None, limit |-> None],
      [dryRun |-> Some(FALSE), retentionDays |-> Some(30), protectTags |-> Some(<<"work">>),
       limit |-> None],
      [dryRun |-> Some(FALSE), retentionDays |-> Some(1), protectTags |-> Some(<<>>),
       limit |-> Some(1)],
      [dryRun |-> Some(TRUE), retentionDays |-> Some(30), protectTags |-> None,
       limit |-> Some(1)],
      [dryRun |-> Some(FALSE), retentionDays |-> Some(1),
       protectTags |-> Some(<<"work", "personal">>), limit |-> None] }

GcStoreParams ==
    { [text |-> Tea, category |-> Some("personal"), entityId |-> None, sessionId |-> None],
      [text |-> Tea, category |-> None, entityId |-> None, sessionId |-> None] }

GcConfigs ==
    { DefaultConfig,
      [DefaultConfig EXCEPT !.retentionDays = Some(30)],
      [DefaultConfig EXCEPT !.retentionDays = Some(1),
                            !.retentionProtectedTags = Some(<<"work">>)] }

InitGc ==
    \E raw \in GcConfigs :
        /\ pluginConfig = raw
        /\ inFlight = <<>>
        /\ waiting = None
        /\ now = StartTime
        /\ ticks = 0
        /\ items = SeedGc
        /\ embeddings = {-3, -2, 0}
        /\ facts = 0
        /\ nextId = 1
        /\ lastHybridDegradedLogTs = 0
        /\ degradedWarnTs = <<>>
        /\ out = NoOut

MemoryStoreGc == \E params \in GcStoreParams : memory_store(params, NoFault)

\* What the environment does in one call: the call that throws.  The store is
\* opened before the parameters are looked at, and the deletes and the VACUUM only
\* run in a live call.
GcEnvs ==
    {[params |-> p, fault |-> NoFault] : p \in GcParams}
    \cup {[params |-> p, fault |-> [stage |-> "openDb", call |-> 0]] :
             p \in {q \in GcParams : q.dryRun = None}}
    \cup {[params |-> p, fault |-> f] :
             p \in {q \in GcParams : q.dryRun = Some(FALSE) /\ q.retentionDays = Some(1)
                                                            /\ q.limit = None},
             f \in GcFaults}

MemoryGc == \E env \in GcEnvs : memory_gc(env.params, env.fault)

ClockGc == \E d \in {Day, 2 * Day} : Tick(d)

\* A database with more old items than a dry run shows: BulkCount memories, the
\* oldest BulkCount + 30 days old, each a day older than the next, every fifth one
\* tagged personal, every second one with an embedding.
BulkItems ==
    { Item(1 - i, StartTime - (30 + i) * Day, Tea,
           IF i % 5 = 0 THEN "personal" ELSE Null, NoHash, Null, "akasha", Null)
        : i \in 1..BulkCount }

BulkParams ==
    { [dryRun |-> None, retentionDays |-> None, protectTags |-> None, limit |-> None],
      [dryRun |-> None, retentionDays |-> Some(30), protectTags |-> Some(<<>>),
       limit |-> None],
      [dryRun |-> Some(TRUE), retentionDays |-> Some(45), protectTags |-> None,
       limit |-> Some(0)],
      [dryRun |-> Some(TRUE), retentionDays |-> Some(30), protectTags |-> Some(<<>>),
       limit |-> Some(21)],
      [dryRun |-> Some(FALSE), retentionDays |-> Some(30), protectTags |-> Some(<<>>),
       limit |-> Some(21)],
      [dryRun |-> Some(FALSE), retentionDays |-> Some(45), protectTags |-> None,
       limit |-> None],
      [dryRun |-> Some(FALSE), retentionDays |-> None, protectTags |-> None,
       limit |-> Some(0)] }

InitBulk ==
    \E raw \in {DefaultConfig, [DefaultConfig EXCEPT !.retentionDays = Some(40)]} :
        /\ pluginConfig = raw
        /\ inFlight = <<>>
        /\ waiting = None
        /\ now = StartTime
        /\ ticks = 0
        /\ items = BulkItems
        /\ embeddings = {1 - i : i \in {j \in 1..BulkCount : j % 2 = 0}}
        /\ facts = 0
        /\ nextId = 1
        /\ lastHybridDegradedLogTs = 0
        /\ degradedWarnTs = <<>>
        /\ out = NoOut

MemoryGcBulk == \E params \in BulkParams : memory_gc(params, NoFault)

ClockBulk == \E d \in {Day, 7 * Day} : Tick(d)

NextBulk == MemoryGcBulk \/ ClockBulk

SpecBulk == InitBulk /\ [][NextBulk]_vars

NextGc == MemoryStoreGc \/ MemoryGc \/ ClockGc

SpecGc == InitGc /\ [][NextGc]_vars

InitCapture == \E raw \in CaptureConfigs : InitState(raw)

AgentEnd ==
    \E event \in CaptureEvents : \E fault \in CaptureFaults : \E nf \in 0..MaxFacts :
        agent_end(event, fault, nf)

ClockCapture == \E d \in {Minute, Day + Minute} : Tick(d)

NextCapture == AgentEnd \/ ClockCapture

SpecCapture == InitCapture /\ [][NextCapture]_vars

-----------------------------------------------------------------------------
(* sanitizeCaptures on its own: lists of up to MaxCaptures messages *)

SanitizeMessages ==
    { [role |-> "user", text |-> <<" ", "a", " ">>],
      [role |-> "user", text |-> <<"a", " ", "b">>],
      [role |-> "user", text |-> Ok],
      [role |-> "user", text |-> Missing],
      [role |-> "user", text |-> WithShortTerm],
      [role |-> "assistant", text |-> <<>>],
      [role |-> "assistant", text |-> Blank],
      [role |-> "assistant", text |-> WithRelevant],
      [role |-> "assistant", text |-> <<"\n", OpenMarker, " ">>] }

SanitizeInputs == UNION {[1..n -> SanitizeMessages] : n \in 0..MaxCaptures}

\* The caller holds a list of messages.
InitSanitize ==
    \E captures \in SanitizeInputs :
        /\ pluginConfig = DefaultConfig
        /\ inFlight = <<>>
        /\ waiting = None
        /\ now = StartTime
        /\ ticks = 0
        /\ items = {}
        /\ embeddings = {}
        /\ facts = 0
        /\ nextId = 1
        /\ lastHybridDegradedLogTs = 0
        /\ degradedWarnTs = <<>>
        /\ out = [NoOut EXCEPT !.params = <<captures>>]

Sanitize ==
    /\ out.op = "none"
    /\ out' = [out EXCEPT !.op = "sanitizeCaptures",
                          !.cleaned = sanitizeCaptures(out.params[1])]
    /\ UNCHANGED <<inFlight, waiting, pluginConfig, now, ticks, items, embeddings, facts, nextId,
                   lastHybridDegradedLogTs, degradedWarnTs>>

NextSanitize == Sanitize

SpecSanitize == InitSanitize /\ [][NextSanitize]_vars

-----------------------------------------------------------------------------
(* Short-term context on its own: a session with a history, and one agent start *)

HistoryProfiles == {"short", "long", "mixed"}

\* The text of the i-th capture of the session: one letter, or a letter and 200 more
\* characters, or (mixed) one text of 301 characters, nine long ones, then short ones.
HistoryText(profile, i) ==
    CASE profile = "short" -> <<LowerCase[i]>>
      [] profile = "long" -> <<LowerCase[i], Paragraph, Paragraph>>
      [] OTHER -> IF i = 1 THEN <<Paragraph, Paragraph, Paragraph, LowerCase[i]>>
                  ELSE IF i <= 10 THEN <<LowerCase[i], Paragraph, Paragraph>>
                  ELSE <<LowerCase[i]>>

\* What agent_end stored of session s1 in the last n minutes, one capture a minute,
\* user and assistant in turn.
History(profile, n) ==
    { Item(i - 100, StartTime - (n + 1 - i) * Minute, HistoryText(profile, i),
           IF i % 2 = 1 THEN "user" ELSE "assistant",
           textHash(normalizeForDedupe(HistoryText(profile, i))),
           "user", "akasha", "s1") : i \in 1..n }

\* A capture of another session, and a memory of session s1 stored by hand.
Others ==
    { Item(-200, StartTime - 2 * Minute, <<"z">>, "user", textHash(<<"z">>),
           "user", "akasha", "s2"),
      Item(-201, StartTime - 3 * Minute, <<"Z">>, "personal", NoHash,
           "user", "akasha", "s1") }

ShortTermEvents ==
    { [prompt |-> Prompt, sessionKey |-> "s1"],
      [prompt |-> Prompt, sessionKey |-> "s2"],
      [prompt |-> Prompt, sessionKey |-> Null],
      [prompt |-> <<" ", "a", "b", " ">>, sessionKey |-> "s1"] }

InitShortTerm ==
    \E profile \in HistoryProfiles : \E n \in 0..MaxHistory : \E others \in {{}, Others} :
        /\ pluginConfig = DefaultConfig
        /\ inFlight = <<>>
        /\ waiting = None
        /\ now = StartTime
        /\ ticks = 0
        /\ items = History(profile, n) \cup others
        /\ embeddings = {}
        /\ facts = 0
        /\ nextId = 1
        /\ lastHybridDegradedLogTs = 0
        /\ degradedWarnTs = <<>>
        /\ out = NoOut

BeforeAgentStartOnce ==
    /\ out.op = "none"
    /\ \E event \in ShortTermEvents : before_agent_start(event, NoFault, "ok")
    /\ UNCHANGED waiting

NextShortTerm == BeforeAgentStartOnce

SpecShortTerm == InitShortTerm /\ [][NextShortTerm]_vars

-----------------------------------------------------------------------------
(* The whole plugin: every tool and both hooks on one store *)

\* What earlier runs left in the database: the two memories of SeedItems and one of
\* 40 days ago.
SeedLife ==
    SeedItems \cup {Item(-2, StartTime - 40 * Day, Tea, "work", NoHash, Null, "akasha", Null)}

LifeConfigs ==
    { [DefaultConfig EXCEPT !.retentionDays = Some(30), !.captureMinChars = Some(0)] }

ForgetParams ==
    { [memoryId |-> Some(-1), query |-> None],
      [memoryId |-> Some(99), query |-> None],
      [memoryId |-> None, query |-> Some(Tea)],
      [memoryId |-> None, query |-> Some(OtherPrompt)],
      [memoryId |-> None, query |-> None] }

StatsParams ==
    { [includeTags |-> Some(FALSE), topTags |-> None],
      [includeTags |-> Some(TRUE), topTags |-> Some(1)] }

LifeGcParams ==
    { [dryRun |-> None, retentionDays |-> None, protectTags |-> None, limit |-> None],
      [dryRun |-> Some(FALSE), retentionDays |-> None, protectTags |-> None, limit |-> None] }

LifeEvents ==
    { [success |-> Some(TRUE), sessionKey |-> "s1",
       messages |-> [isArray |-> TRUE,
                     list |-> <<StringMsg("user", Coffee), StringMsg("assistant", Tea)>>]] }

InitLife ==
    \E raw \in LifeConfigs :
        /\ pluginConfig = raw
        /\ inFlight = <<>>
        /\ waiting = None
        /\ now = StartTime
        /\ ticks = 0
        /\ items = SeedLife
        /\ embeddings = {}
        /\ facts = 0
        /\ nextId = 1
        /\ lastHybridDegradedLogTs = 0
        /\ degradedWarnTs = <<>>
        /\ out = NoOut

LifeStore ==
    \E params \in {[text |-> Tea, category |-> Some("personal"), entityId |-> None,
                    sessionId |-> None]} :
        memory_store(params, NoFault)

LifeRecall ==
    /\ \E params \in {[query |-> Prompt, limit |-> None, entityId |-> None,
                       processId |-> None, sessionId |-> None]} :
          memory_recall(params, NoFault, "ok")
    /\ UNCHANGED waiting

LifeStats == \E params \in StatsParams : memory_stats(params, NoFault)

LifeStart ==
    /\ \E event \in {[prompt |-> Prompt, sessionKey |-> "s1"]} :
          before_agent_start(event, NoFault, "ok")
    /\ UNCHANGED waiting

LifeEnd == \E event \in LifeEvents : \E nf \in 0..MaxFacts : agent_end(event, NoFault, nf)

\* What the environment does in one call: the call that throws.
ForgetEnvs ==
    {[params |-> p, fault |-> NoFault] : p \in ForgetParams}
    \cup {[params |-> p, fault |-> [stage |-> "searchItems", call |-> 0]] :
             p \in {q \in ForgetParams : q.query = Some(Tea)}}

LifeForget == \E env \in ForgetEnvs : memory_forget(env.params, env.fault, "ok")

LifeGc == \E params \in LifeGcParams : memory_gc(params, NoFault)

LifeClock == Tick(Day)

NextLife ==
    \/ LifeStore
    \/ LifeRecall
    \/ LifeStats
    \/ LifeStart
    \/ LifeEnd
    \/ LifeForget
    \/ LifeGc
    \/ LifeClock

SpecLife == InitLife /\ [][NextLife]_vars

-----------------------------------------------------------------------------
(* The writers of a store whose items have embeddings *)

\* Earlier hybrid searches left an embeddings row for each of these items.
SeedEmbeddings == {-1, 0}

InitEmbedded ==
    \E raw \in LifeConfigs :
        /\ pluginConfig = raw
        /\ inFlight = <<>>
        /\ waiting = None
        /\ now = StartTime
        /\ ticks = 0
        /\ items = SeedLife
        /\ embeddings = SeedEmbeddings
        /\ facts = 0
        /\ nextId = 1
        /\ lastHybridDegradedLogTs = 0
        /\ degradedWarnTs = <<>>
        /\ out = NoOut

NextEmbedded ==
    \/ LifeStore
    \/ LifeEnd
    \/ LifeForget
    \/ LifeGc
    \/ LifeClock

SpecEmbedded == InitEmbedded /\ [][NextEmbedded]_vars

-----------------------------------------------------------------------------
(* Turns that end on several connections to one database file *)

OverlapEvents ==
    { [success |-> Some(TRUE), sessionKey |-> "s1",
       messages |-> [isArray |-> TRUE, list |-> b]] :
        b \in { << StringMsg("user", Coffee) >>,
                << StringMsg("assistant", CoffeeVariant), StringMsg("user", Tea) >>,
                << StringMsg("user", Ok), StringMsg("user", Tea) >> } }

InitOverlap == \E raw \in CaptureConfigs : InitState(raw)

AgentEndRead == \E event \in OverlapEvents : agentEndRead(event)

AgentEndStore == \E k \in 1..MaxInFlight : agentEndStore(k)

ClockOverlap == Tick(Minute)

NextOverlap == AgentEndRead \/ AgentEndStore \/ ClockOverlap

SpecOverlap == InitOverlap /\ [][NextOverlap]_vars

-----------------------------------------------------------------------------
(* Recall with a probe that takes time: the call waits for the response or the abort *)

ProbeConfigs ==
    { [DefaultConfig EXCEPT !.mode = Some("hybrid")],
      [DefaultConfig EXCEPT !.mode = Some("hybrid"), !.ollamaTimeoutMs = Some(500)],
      [DefaultConfig EXCEPT !.mode = Some("hybrid"), !.ollamaTimeoutMs = Some(100)] }

ProbeCalls ==
    {[caller |-> "memory_recall", input |-> p, elapsed |-> 0] : p \in RecallParams}
    \cup {[caller |-> "before_agent_start", input |-> [prompt |-> Prompt, sessionKey |-> "s1"],
           elapsed |-> 0]}

InitProbe ==
    \E raw \in ProbeConfigs :
        /\ pluginConfig = raw
        /\ inFlight = <<>>
        /\ waiting = None
        /\ now = StartTime
        /\ ticks = 0
        /\ items = SeedItems
        /\ embeddings = {}
        /\ facts = 0
        /\ nextId = 1
        /\ lastHybridDegradedLogTs = 0
        /\ degradedWarnTs = <<>>
        /\ out = NoOut

\* A call in hybrid mode reaches its fetch of /v1/embeddings.
ProbeStarts ==
    /\ waiting = None
    /\ \E call \in ProbeCalls : waiting' = Some(call)
    /\ out' = NoOut
    /\ UNCHANGED <<inFlight, pluginConfig, now, ticks, items, embeddings, facts, nextId,
                   lastHybridDegradedLogTs, degradedWarnTs>>

\* The call goes on with what the probe gave.
ProbeEnds(call, probe) ==
    \/ call.caller = "memory_recall" /\ memory_recall(call.input, NoFault, probe)
    \/ /\ call.caller = "before_agent_start"
       /\ before_agent_start(call.input, NoFault, probe)

\* No response yet, and the abort is not due.
ProbeTimePasses ==
    /\ \E call \in waiting :
          /\ ~probeDue(getCfg(pluginConfig), call.elapsed)
          /\ call.elapsed < 800
          /\ waiting' = Some([call EXCEPT !.elapsed = @ + ProbeTick])
    /\ UNCHANGED <<inFlight, pluginConfig, now, ticks, items, embeddings, facts, nextId,
                   lastHybridDegradedLogTs, degradedWarnTs, out>>

\* The server answers or the connection fails, before the abort.
ProbeResponds ==
    /\ \E call \in waiting : \E probe \in ProbeOutcomes \ {"timeout"} :
          /\ ~probeDue(getCfg(pluginConfig), call.elapsed)
          /\ ProbeEnds(call, probe)
    /\ waiting' = None

\* The abort is due: fetch rejects.
ProbeAborts ==
    /\ \E call \in waiting :
          /\ probeDue(getCfg(pluginConfig), call.elapsed)
          /\ ProbeEnds(call, "timeout")
    /\ waiting' = None

NextProbe == ProbeStarts \/ ProbeTimePasses \/ ProbeResponds \/ ProbeAborts

\* Time passes and timers fire; nothing makes the server answer.
SpecProbe ==
    InitProbe /\ [][NextProbe]_vars /\ WF_vars(ProbeTimePasses) /\ WF_vars(ProbeAborts)

-----------------------------------------------------------------------------
(* shouldSkipCapture on its own: short texts over a small alphabet, and a long one *)

\* 18 characters, with "ok" and "okay" inside.
Preference ==
    <<"a", " ", "o", "k", " ", "b", "a", "c", "k", " ", "a", "b", "c", " ",
      "o", "k", "a", "y">>

SkipAlphabet == {"o", "K", " ", ".", "1", "thumbs-up"}

SkipTexts ==
    UNION {[1..n -> SkipAlphabet] : n \in 0..MaxText} \cup {Preference, Ok, Coffee}

SkipMinChars == {0, 2, 16}

\* The caller holds a text and the configured minimum.
InitSkip ==
    \E text \in SkipTexts : \E minChars \in SkipMinChars :
        /\ pluginConfig = DefaultConfig
        /\ inFlight = <<>>
        /\ waiting = None
        /\ now = StartTime
        /\ ticks = 0
        /\ items = {}
        /\ embeddings = {}
        /\ facts = 0
        /\ nextId = 1
        /\ lastHybridDegradedLogTs = 0
        /\ degradedWarnTs = <<>>
        /\ out = [NoOut EXCEPT !.params = <<[text |-> text, minChars |-> minChars]>>]

ShouldSkip ==
    /\ out.op = "none"
    /\ out' = [out EXCEPT
                  !.op = "shouldSkipCapture",
                  !.results = <<shouldSkipCapture(out.params[1].text,
                                                  out.params[1].minChars)>>]
    /\ UNCHANGED <<inFlight, waiting, pluginConfig, now, ticks, items, embeddings, facts, nextId,
                   lastHybridDegradedLogTs, degradedWarnTs>>

NextSkip == ShouldSkip

SpecSkip == InitSkip /\ [][NextSkip]_vars

-----------------------------------------------------------------------------
(* normalizeForDedupe and textHash on their own: two texts at a time *)

HashAlphabet == {"a", "A", " ", "\n", OpenMarker, OpenMarkerUpper, CloseMarker}

HashTexts == UNION {[1..n -> HashAlphabet] : n \in 0..MaxHashText}

InitHash ==
    \E a \in HashTexts : \E b \in HashTexts :
        /\ pluginConfig = DefaultConfig
        /\ inFlight = <<>>
        /\ waiting = None
        /\ now = StartTime
        /\ ticks = 0
        /\ items = {}
        /\ embeddings = {}
        /\ facts = 0
        /\ nextId = 1
        /\ lastHybridDegradedLogTs = 0
        /\ degradedWarnTs = <<>>
        /\ out = [NoOut EXCEPT !.params = <<[a |-> a, b |-> b]>>]

HashBoth ==
    /\ out.op = "none"
    /\ out' = [out EXCEPT
                  !.op = "textHash",
                  !.results = <<textHash(normalizeForDedupe(out.params[1].a)),
                                textHash(normalizeForDedupe(out.params[1].b))>>]
    /\ UNCHANGED <<inFlight, waiting, pluginConfig, now, ticks, items, embeddings, facts, nextId,
                   lastHybridDegradedLogTs, degradedWarnTs>>

NextHash == HashBoth

SpecHash == InitHash /\ [][NextHash]_vars

-----------------------------------------------------------------------------
(* Properties *)

captureMaxPerTurn == getCfg(pluginConfig).captureMaxPerTurn
captureDedupeWindowMs == getCfg(pluginConfig).captureDedupeWindowMs
captureDedupeMaxCheck == getCfg(pluginConfig).captureDedupeMaxCheck

\* The protected tags in force for a memory_gc call with parameters p.
EffectiveProtectedTags(p) ==
    IF p.protectTags # None THEN Range(Coalesce(p.protectTags, <<>>))
    ELSE IF pluginConfig.retentionProtectedTags # None
         THEN Range(Coalesce(pluginConfig.retentionProtectedTags, <<>>))
    ELSE {"personal"}

\* C1: a memory_gc call, dry-run or live, neither reports as a candidate nor deletes
\* an item whose tags equal a protected tag in force (the call's protectTags, else
\* the configured retentionProtectedTags, else "personal").
C1_GcSparesProtectedTags ==
    [][out'.op = "memory_gc" =>
          /\ \A r \in out'.rows : r.tags \notin EffectiveProtectedTags(out'.params[1])
          /\ \A it \in items \ items' : it.tags \notin EffectiveProtectedTags(out'.params[1])
      ]_vars

\* A live run with retentionDays = 1 has deleted items, and an item with a protected
\* tag created two days before is still there.
C1_Witness ==
    /\ out.op = "memory_gc" /\ out.kind = "deleted" /\ out.n > 0
    /\ out.params[1].retentionDays = Some(1)
    /\ \E it \in items : /\ it.tags \in EffectiveProtectedTags(out.params[1])
                         /\ it.created_at = now - 2 * Day

\* The item is in the dedupe window: created at or after now - captureDedupeWindowMs
\* and among the captureDedupeMaxCheck most recent rows.
InDedupeWindow(it) ==
    /\ it.created_at >= now - captureDedupeWindowMs
    /\ Cardinality({q \in items : q.created_at >= it.created_at}) <= captureDedupeMaxCheck

\* C2: with captureDedupeWindowMs > 0, agent_end stores no candidate whose
\* normalized-text hash is the content hash of an item in the dedupe window.
C2_NoDuplicateOfWindow ==
    [][out'.op = "agent_end" /\ captureDedupeWindowMs > 0 =>
          \A new \in items' \ items : \A old \in items :
              InDedupeWindow(old) /\ old.h # NoHash
                  => textHash(normalizeForDedupe(new.text)) # old.h
      ]_vars

\* A turn whose one candidate normalizes to the text of an item stored a minute
\* before has stored nothing, and that text is in the store once.
C2_Witness ==
    /\ out.op = "agent_end" /\ out.n = 1 /\ out.disp = <<"duplicate">> /\ out.stored = 0
    /\ captureDedupeWindowMs > 0
    /\ \E it \in items : /\ it.h = textHash(normalizeForDedupe(Coffee))
                         /\ it.created_at = now - Minute
    /\ Cardinality({it \in items : it.h = textHash(normalizeForDedupe(Coffee))}) = 1

\* C3: no item stored by agent_end (the items whose meta holds a hash) has a text
\* with an injected context block, short-term or relevant-memories.
C3_NoInjectedContextStored ==
    \A it \in items : it.h # NoHash =>
        ~Includes(it.text, ShortOpenMarker) /\ ~Includes(it.text, OpenMarker)

\* C4: agent_end stores at most min(n, captureMaxPerTurn) items, n the number of
\* {role, text} candidates of the batch.
C4_StoredAtMostCap ==
    [][out'.op = "agent_end" =>
          /\ Cardinality(items' \ items) <= Min(out'.n, captureMaxPerTurn)
          /\ out'.stored <= Min(out'.n, captureMaxPerTurn)
      ]_vars

\* A turn with more candidates than captureMaxPerTurn has stored captureMaxPerTurn items.
C4_Witness ==
    out.op = "agent_end" /\ out.n > captureMaxPerTurn /\ out.stored = captureMaxPerTurn

\* C5: a failure inside before_agent_start is caught and logged, and the handler
\* returns no context and does not throw.
C5_AutoRecallFailureCaught ==
    out.op = "before_agent_start" /\ out.fault # "none" =>
        ~out.threw /\ "warn_autoRecall" \in out.logged /\ out.context = <<>>

\* The semantic backend failed under before_agent_start, which returned nothing.
C5_Witness ==
    /\ out.op = "before_agent_start" /\ out.fault = "hybridSearch"
    /\ ~out.threw /\ out.context = <<>>

\* C6: a failure of the capture pipeline in agent_end is caught and logged and
\* does not leave the handler.
C6_CaptureFailureCaught ==
    out.op = "agent_end" /\ out.fault # "none" => ~out.threw /\ "error" \in out.logged

\* An insert failed after an earlier one of the turn succeeded; the handler logged it.
C6_Witness ==
    /\ out.op = "agent_end" /\ out.fault = "addItem" /\ out.stored = 1
    /\ ~out.threw /\ "error" \in out.logged

\* C7: when an insert fails in agent_end, the other candidates of the turn (the
\* first captureMaxPerTurn) are still processed, and the stored count is reported.
C7_InsertFailureSkipsOne ==
    out.op = "agent_end" /\ "failed" \in Range(out.disp) =>
        /\ Len(out.disp) = Min(captureMaxPerTurn, Len(out.cleaned))
        /\ (out.stored > 0 => "info_captured" \in out.logged)

Degraded(o) == o.probe \in {"http_error", "timeout", "network_error"}

\* C8: in hybrid mode with a failed probe, recall calls neither hybridSearch nor
\* hybridSearchFiltered and returns the lexical search results.
C8_ProbeFailureIsLexical ==
    out.op \in {"memory_recall", "before_agent_start"} /\ Degraded(out) =>
        /\ out.calls \cap {"hybridSearch", "hybridSearchFiltered"} = {}
        /\ out.fault = "none" => out.kind = "lexical"
        /\ out.op = "memory_recall" /\ out.fault = "none" =>
              out.results = Ids(searchItems(items, out.params[1].query,
                                Clamp(1, 20, Coalesce(out.params[1].limit, 5))))

\* A filtered memory_recall whose probe timed out returned a lexical match.
C8_Witness ==
    /\ out.op = "memory_recall" /\ out.probe = "timeout" /\ out.results # <<>>
    /\ out.params[1].entityId # None

\* C9: in hybrid mode, when the probe succeeds and the hybrid search fails, recall
\* returns the lexical results and its caller sees no failure.
C9_HybridFailureIsLexical ==
    out.op = "memory_recall" /\ out.probe = "ok" /\ out.fault = "hybridSearch" =>
        ~out.threw /\ out.kind = "lexical"

\* C10: any two degradation warnings are at least an hour (3,600,000 ms) apart.
C10_WarningsAnHourApart ==
    \A i \in 1..Len(degradedWarnTs) : \A j \in 1..Len(degradedWarnTs) :
        i < j => degradedWarnTs[j] - degradedWarnTs[i] >= Hour

\* Two warnings were emitted, and a later degraded call logged none.
C10_Witness ==
    /\ Len(degradedWarnTs) = 2
    /\ Degraded(out) /\ "warn_degraded" \notin out.logged

\* The items a memory_gc call selected, as they were before the call.
Selected(o, rows) == {r \in rows : r.id \in {q.id : q \in o.rows}}

\* C11: a live memory_gc deletes the selected items and their embeddings together:
\* after the call, failed or not, each selected item is there with the embedding it
\* had, or the item and its embedding are both gone; a failure part-way leaves the
\* store as it was, and a successful live run leaves no embedding of a selected item.
C11_GcDeleteIsAtomic ==
    [][out'.op = "memory_gc" =>
          /\ \A r \in Selected(out', items) :
                \/ r \in items' /\ (r.id \in embeddings => r.id \in embeddings')
                \/ r \notin items' /\ r.id \notin embeddings'
          /\ out'.threw => items' = items /\ embeddings' = embeddings
          /\ out'.kind = "deleted" =>
                /\ \A r \in Selected(out', items) : r \notin items'
                /\ embeddings' \cap {q.id : q \in out'.rows} = {}
      ]_vars

\* The delete of the items failed after the delete of the embeddings: a selected
\* item is still there, with its embedding.
C11_Witness ==
    /\ out.op = "memory_gc" /\ out.threw /\ out.fault = "deleteItems"
    /\ \E r \in Selected(out, items) : r.id \in embeddings

\* C12: a memory_gc call with dryRun true or omitted leaves items and embeddings as
\* they are, and when a retention horizon is set it reports the number of candidates
\* with a sample of at most 20 of them; only a call with dryRun = false changes
\* the store.
C12_DryRunLeavesStore ==
    [][out'.op = "memory_gc" /\ ~out'.threw =>
          /\ out'.params[1].dryRun # Some(FALSE) =>
                /\ items' = items /\ embeddings' = embeddings
                /\ out'.kind \in {"dryRun", "skipped"}
          /\ out'.kind = "dryRun" =>
                /\ out'.n = Cardinality(out'.rows)
                /\ out'.sample \subseteq out'.rows
                /\ Cardinality(out'.sample) = Min(20, out'.n)
          /\ items' # items \/ embeddings' # embeddings =>
                out'.params[1].dryRun = Some(FALSE)
      ]_vars

\* A call without dryRun found more than 20 candidates and showed 20 of them.
C12_Witness ==
    /\ out.op = "memory_gc" /\ out.kind = "dryRun" /\ out.params[1].dryRun = None
    /\ out.n > 20 /\ Cardinality(out.sample) = 20
    /\ items = BulkItems

\* C13: when neither the call nor the configuration sets retentionDays, memory_gc
\* reports "skipped" and leaves items and embeddings as they are, whatever dryRun is.
C13_NoHorizonSkips ==
    [][/\ out'.op = "memory_gc" /\ ~out'.threw
       /\ out'.params[1].retentionDays = None /\ pluginConfig.retentionDays = None
       => out'.kind = "skipped" /\ out'.n = 0 /\ out'.rows = {}
              /\ items' = items /\ embeddings' = embeddings
      ]_vars

\* A live call without a horizon was skipped while the store holds an item 40 days
\* old without a protected tag.
C13_Witness ==
    /\ out.op = "memory_gc" /\ out.kind = "skipped"
    /\ out.params[1].dryRun = Some(FALSE) /\ out.params[1].retentionDays = None
    /\ \E it \in items : it.tags = "work" /\ it.created_at <= now - 40 * Day

\* The retention horizon in force for a memory_gc call with parameters p, in days.
EffectiveDays(p) ==
    Coalesce(IF p.retentionDays # None THEN p.retentionDays
             ELSE getCfg(pluginConfig).retentionDays, 0)

\* The items a memory_gc call with parameters p may collect: older than the horizon,
\* without a tag or with a tag that is no protected tag.
Eligible(p) ==
    {it \in items : /\ it.created_at < now - EffectiveDays(p) * Day
                    /\ (it.tags = Null \/ it.tags \notin EffectiveProtectedTags(p))}

ScanLimit(p) == Clamp(1, 5000, Coalesce(p.limit, 1000))

\* C14: when the eligible items are no more than the scan limit, the candidates of
\* memory_gc are exactly the eligible items.
C14_CandidatesAreTheEligible ==
    [][/\ out'.op = "memory_gc" /\ out'.kind \in {"dryRun", "deleted"}
       /\ Cardinality(Eligible(out'.params[1])) <= ScanLimit(out'.params[1])
       => out'.rows = {GcRow(it) : it \in Eligible(out'.params[1])}
      ]_vars

\* Horizon 30 days, "personal" protected: of the two items 40 days old the one tagged
\* work is the only candidate, the one tagged personal is none.
C14_Witness ==
    /\ out.op = "memory_gc" /\ out.kind = "dryRun"
    /\ EffectiveDays(out.params[1]) = 30
    /\ EffectiveProtectedTags(out.params[1]) = {"personal"}
    /\ \E a \in items : \E b \in items :
          /\ a.tags = "personal" /\ a.created_at = now - 40 * Day
          /\ b.tags = "work" /\ b.created_at = now - 40 * Day
          /\ out.rows = {GcRow(b)}

\* C15: one memory_gc call selects at most limit items (1000 when the call gives
\* none, clamped to 1..5000), all of them eligible and the oldest first: no eligible
\* item left out is older than a selected one; a live run deletes nothing else.
C15_OldestFirstWithinLimit ==
    [][out'.op = "memory_gc" /\ out'.kind \in {"dryRun", "deleted"} =>
          /\ Cardinality(out'.rows) <= ScanLimit(out'.params[1])
          /\ out'.rows \subseteq {GcRow(it) : it \in Eligible(out'.params[1])}
          /\ \A e \in Eligible(out'.params[1]) : \A sel \in out'.rows :
                GcRow(e) \notin out'.rows => e.created_at >= sel.created_at
          /\ \A it \in items \ items' : GcRow(it) \in out'.rows
      ]_vars

\* A live run with limit 21 deleted 21 items and left an eligible one, younger than
\* those it deleted.
C15_Witness ==
    /\ out.op = "memory_gc" /\ out.kind = "deleted"
    /\ out.params[1].limit = Some(21) /\ out.n = 21
    /\ \E e \in Eligible(out.params[1]) : \A sel \in out.rows : e.created_at > sel.created_at

\* The protected tags of the configuration (retentionProtectedTags, "personal" when
\* it is not set).
ConfiguredProtectedTags == Range(getCfg(pluginConfig).retentionProtectedTags)

\* C16: an item whose tag is a configured protected tag is never deleted: whatever
\* call is made, it is still in the store afterwards.
C16_ProtectedItemsStay ==
    [][\A it \in items : it.tags \in ConfiguredProtectedTags => it \in items']_vars

\* C17: with captureDedupeWindowMs > 0, the items one agent_end call stores have
\* pairwise different normalized texts: of the candidates of a turn that normalize
\* to the same text at most one is stored.
C17_NoDuplicateWithinTurn ==
    [][out'.op = "agent_end" /\ captureDedupeWindowMs > 0 =>
          \A a \in items' \ items : \A b \in items' \ items :
              a # b => textHash(normalizeForDedupe(a.text))
                          # textHash(normalizeForDedupe(b.text))
      ]_vars

\* A turn of two candidates that differ in case and spacing only: the first is
\* stored, the second is skipped as a duplicate.
C17_Witness ==
    /\ out.op = "agent_end" /\ captureDedupeWindowMs > 0
    /\ out.n = 2 /\ out.disp = <<"stored", "duplicate">> /\ out.stored = 1
    /\ Cardinality({it \in items : it.h = textHash(normalizeForDedupe(Coffee))}) = 1

captureMinChars == getCfg(pluginConfig).captureMinChars

\* The positions, among the first captureMaxPerTurn sanitized candidates of a turn,
\* of those the noise filter lets through.
PassingNoise(o) ==
    {i \in 1..Min(captureMaxPerTurn, Len(o.cleaned)) :
        ~shouldSkipCapture(o.cleaned[i].text, captureMinChars)}

\* C18: with captureDedupeWindowMs = 0, an agent_end call that does not fail stores
\* every candidate among the first captureMaxPerTurn that passes the noise filter,
\* one item each, whatever is in the store and whatever came earlier in the turn.
C18_ZeroWindowStoresAll ==
    [][out'.op = "agent_end" /\ out'.fault = "none" /\ captureDedupeWindowMs = 0 =>
          /\ Cardinality(items' \ items) = Cardinality(PassingNoise(out'))
          /\ \A i \in PassingNoise(out') :
                /\ out'.disp[i] = "stored"
                /\ \E it \in items' \ items :
                      it.text = out'.cleaned[i].text /\ it.tags = out'.cleaned[i].role
      ]_vars

\* A turn of two candidates with the same normalized text stored both.
C18_Witness ==
    /\ out.op = "agent_end" /\ captureDedupeWindowMs = 0
    /\ out.disp = <<"stored", "stored">>
    /\ Cardinality({it \in items : it.h = textHash(normalizeForDedupe(Coffee))}) = 2

\* C19: sanitizeCaptures is idempotent: applied to its own result it returns it
\* unchanged.
C19_SanitizeIdempotent ==
    out.op = "sanitizeCaptures" => sanitizeCaptures(out.cleaned) = out.cleaned

\* A list with a blank message, a padded one and one with a relevant-memories block
\* was sanitized to a shorter, non-empty list.
C19_Witness ==
    /\ out.op = "sanitizeCaptures" /\ Len(out.params[1]) = 3
    /\ \E i \in 1..3 : out.params[1][i].text = Blank
    /\ \E i \in 1..3 : out.params[1][i].text = <<" ", "a", " ">>
    /\ \E i \in 1..3 : out.params[1][i].text = WithRelevant
    /\ out.cleaned = << [role |-> "user", text |-> <<"a">>] >>

\* The trimmed text of a message, without leading or trailing whitespace.
TrimmedText(c) ==
    LET t == StringOfText(c.text)
        inner == {i \in 1..Len(t) : t[i] \notin Whitespace}
    IN IF inner = {} THEN <<>>
       ELSE SubSeq(t, CHOOSE i \in inner : \A j \in inner : i <= j,
                      CHOOSE i \in inner : \A j \in inner : i >= j)

\* The positions of the messages sanitizeCaptures keeps.
KeptPositions(x) ==
    {i \in 1..Len(x) : /\ TrimmedText(x[i]) # <<>>
                       /\ \A j \in 1..Len(TrimmedText(x[i])) :
                             TrimmedText(x[i])[j] # OpenMarker}

C21_SanitizeDropsAcknowledgements ==
    out.op = "sanitizeCaptures" =>
        \A i \in 1..Len(out.cleaned) : toLowerCase(out.cleaned[i].text) \notin AckTokens

\* The text as a whole is an acknowledgement token, whatever the case of its letters.
IsAcknowledgement(t) ==
    \E a \in AckTokens : Len(a) = Len(t) /\ \A i \in 1..Len(t) : LowerChar(t[i]) = a[i]

\* C22: shouldSkipCapture(text, minChars) is true exactly when the trimmed text is
\* empty, or shorter than minChars, or without a letter or digit, or as a whole an
\* acknowledgement token in any case.
C22_SkipExactlyNoise ==
    out.op = "shouldSkipCapture" =>
        LET t == TrimmedText(out.params[1])
        IN out.results[1] <=>
              \/ t = <<>>
              \/ TextLen(t) < out.params[1].minChars
              \/ \A i \in 1..Len(t) : t[i] \notin Letters \cup Digits \cup WordTokens
              \/ IsAcknowledgement(t)

\* A text of 18 characters with "ok" inside is not skipped at minChars = 16.
C22_Witness ==
    /\ out.op = "shouldSkipCapture"
    /\ out.params[1] = [text |-> Preference, minChars |-> 16]
    /\ out.results = <<FALSE>>

\* The words of a text (its maximal runs without whitespace), each with its letters
\* folded to one case.
RECURSIVE FoldedWords(_)
FoldedWords(s) ==
    LET t == TrimLeft(s)
        stops == {i \in 1..Len(t) : t[i] \in Whitespace}
        n == IF stops = {} THEN Len(t) ELSE (CHOOSE i \in stops : \A j \in stops : i <= j) - 1
    IN IF t = <<>> THEN <<>>
       ELSE <<[i \in 1..n |-> LowerChar(t[i])]>> \o FoldedWords(SubSeq(t, n + 1, Len(t)))

\* Two texts that differ only in whitespace runs and letter case.
SameUpToSpaceAndCase(a, b) == FoldedWords(a) = FoldedWords(b)

RECURSIVE Split(_, _)
Split(s, sep) ==
    IF ~Includes(s, sep) THEN <<s>>
    ELSE <<SubSeq(s, 1, IndexOf(s, sep) - 1)>> \o Split(SubSeq(s, IndexOf(s, sep) + 1, Len(s)), sep)

\* The short-term block inside an injected context, markers included (no stored text
\* of the model holds a marker).
ShortTermOf(context) ==
    IF Includes(context, ShortOpenMarker) /\ Includes(context, ShortCloseMarker)
    THEN SubSeq(context, IndexOf(context, ShortOpenMarker), IndexOf(context, ShortCloseMarker))
    ELSE <<>>

\* The message lines of a short-term block: what lies between the header line and the
\* closing marker's line.
ShortTermMessageLines(block) ==
    IF block = <<>> THEN <<>>
    ELSE Split(SubSeq(block, 5, Len(block) - 2), "\n")

\* C24: the short-term block of the context before_agent_start returns has at most
\* 2000 characters, markers and header included.
C24_ShortTermWithinBudget ==
    out.op = "before_agent_start" => TextLen(ShortTermOf(out.context)) <= maxChars

\* `[role: X] snippet` for one stored row.
Rendering(r) ==
    <<IF r.tags = "assistant" THEN AssistantPrefix ELSE UserPrefix>>
    \o (IF TextLen(Trim(CollapseWhitespace(r.text))) > 300
        THEN Append(SliceChars(Trim(CollapseWhitespace(r.text)), 300), Ellipsis)
        ELSE Trim(CollapseWhitespace(r.text)))

RECURSIVE SumLen(_)
SumLen(lines) == IF lines = <<>> THEN 0 ELSE TextLen(Head(lines)) + SumLen(Tail(lines))

\* The rows the short-term query of the last call scanned, oldest first.
ScannedRows(o) == SessionRows(items, o.params[1].sessionKey)

\* C25: the message lines of the short-term block are the complete renderings of the
\* first k scanned rows, oldest first, and the run stops before row k + 1 only at the
\* message cap or because that row's whole line would overflow the character budget.
C25_BlockEndsAtLineBoundary ==
    (out.op = "before_agent_start" /\ ShortTermOf(out.context) # <<>>) =>
        LET lines == ShortTermMessageLines(ShortTermOf(out.context))
            rows == ScannedRows(out)
            k == Len(lines)
        IN /\ k <= Len(rows)
           /\ \A i \in 1..k : lines[i] = Rendering(rows[i])
           /\ k < Len(rows) =>
                 \/ k >= maxMsgs
                 \/ SumLen(lines) + TextLen(Rendering(rows[k + 1])) > maxChars

\* A line overflowed and a later, shorter row that would have fitted was left out too.
C25_Witness ==
    /\ out.op = "before_agent_start"
    /\ ShortTermOf(out.context) # <<>>
    /\ \E k \in {Len(ShortTermMessageLines(ShortTermOf(out.context)))} :
          /\ k < maxMsgs
          /\ k < Len(ScannedRows(out))
          /\ \E lines \in {ShortTermMessageLines(ShortTermOf(out.context))} :
                /\ SumLen(lines) + TextLen(Rendering(ScannedRows(out)[k + 1])) > maxChars
                /\ \E j \in (k + 2)..Len(ScannedRows(out)) :
                      SumLen(lines) + TextLen(Rendering(ScannedRows(out)[j])) <= maxChars

\* The stored user/assistant messages of the session of the last call.
SessionMessages(o) ==
    {r \in items : r.session_id = o.params[1].sessionKey /\ r.tags \in {"user", "assistant"}}

\* The n most recent of them.
MostRecent(o, n) ==
    {SortRows(SessionMessages(o), TRUE)[i] : i \in 1..Min(n, Cardinality(SessionMessages(o)))}

\* C26: when the session holds more than 15 stored user/assistant messages, the block
\* has at most 15 message lines and each of them renders one of the 15 most recent.
C26_LastFifteenMessages ==
    (/\ out.op = "before_agent_start"
     /\ ShortTermOf(out.context) # <<>>
     /\ Cardinality(SessionMessages(out)) > maxMsgs) =>
        LET lines == ShortTermMessageLines(ShortTermOf(out.context))
        IN /\ Len(lines) <= maxMsgs
           /\ \A i \in 1..Len(lines) : \E r \in MostRecent(out, maxMsgs) : lines[i] = Rendering(r)

\* C27: every message line of the short-term block renders a stored item of the
\* event's session whose tag is user or assistant, and an event without a session key
\* gets no short-term block.
C27_ShortTermIsSessionScoped ==
    out.op = "before_agent_start" =>
        /\ \A i \in 1..Len(ShortTermMessageLines(ShortTermOf(out.context))) :
              \E r \in items :
                 /\ r.session_id = out.params[1].sessionKey
                 /\ r.tags \in {"user", "assistant"}
                 /\ ShortTermMessageLines(ShortTermOf(out.context))[i] = Rendering(r)
        /\ out.params[1].sessionKey = Null => ShortTermOf(out.context) = <<>>

\* The store holds a capture of another session and a hand-stored memory of this one,
\* and the block of session s1 is not empty.
C27_Witness ==
    /\ out.op = "before_agent_start"
    /\ out.params[1].sessionKey = "s1"
    /\ Others \subseteq items
    /\ ShortTermOf(out.context) # <<>>

\* C28: a prompt of fewer than 5 characters still gets the short-term block when the
\* event's session has stored user/assistant captures.
C28_ShortPromptKeepsShortTerm ==
    (/\ out.op = "before_agent_start"
     /\ TextLen(Trim(out.params[1].prompt)) < minPromptChars
     /\ SessionMessages(out) # {}) =>
        ShortTermOf(out.context) # <<>>

\* C29: no step of any tool or hook changes a field of an item that stays in the
\* store, and an item leaves the store only in a memory_forget call or in a live
\* memory_gc call.
C29_ItemsAreImmutable ==
    [][\A it \in items :
          \/ it \in items'
          \/ /\ \A q \in items' : q.id # it.id
             /\ \/ out'.op = "memory_forget"
                \/ out'.op = "memory_gc" /\ out'.params[1].dryRun = Some(FALSE)]_vars

\* memory_forget has deleted one seeded memory, another one is still there as it
\* was, and a memory stored since is there too.
C29_Witness ==
    /\ out.op = "memory_forget"
    /\ out.n = 1
    /\ \E it \in SeedLife : it \notin items
    /\ \E it \in SeedLife : it \in items
    /\ \E it \in items : it.id >= 1

\* C30: an agent_end call that read the dedupe window before another call inserted
\* stores every candidate that is no noise and whose hash was not in the window it
\* read nor earlier in its own turn, whatever the store holds by then: two calls that
\* overlap this way both insert the same text.
C30_OverlapStoresBoth ==
    out.op = "agent_end" =>
        \A i \in 1..Len(out.disp) :
            (/\ ~shouldSkipCapture(out.cleaned[i].text, captureMinChars)
             /\ textHash(normalizeForDedupe(out.cleaned[i].text)) \notin out.rows
             /\ \A j \in 1..(i - 1) :
                   normalizeForDedupe(out.cleaned[j].text)
                       # normalizeForDedupe(out.cleaned[i].text))
                => out.disp[i] = "stored"

\* Two stored items with the same content hash inside one dedupe window, the second
\* stored by a call that had read the window before the first was inserted.
C30_Witness ==
    /\ out.op = "agent_end"
    /\ out.stored > 0
    /\ captureDedupeWindowMs > 0
    /\ \E a \in items : \E b \in items :
          /\ a.id # b.id
          /\ a.h = b.h
          /\ a.h # NoHash
          /\ a.h \notin out.rows
          /\ InDedupeWindow(a) /\ InDedupeWindow(b)

\* C31: a recall call in hybrid mode that waits for its probe eventually goes on, and
\* a probe aborted for want of a response leaves the call with lexical results.
C31_ProbeNeverBlocks ==
    /\ (waiting # None) ~> (waiting = None)
    /\ [](\A call \in waiting :
            call.elapsed < Min(getCfg(pluginConfig).ollamaTimeoutMs, 800) + ProbeTick)
    /\ [](out.probe = "timeout" => out.kind = "lexical" /\ ~out.threw)

\* A call has gone on after the abort of its probe, with lexical results.
C31_Witness ==
    /\ waiting = None
    /\ out.op \in {"memory_recall", "before_agent_start"}
    /\ out.probe = "timeout"
    /\ out.kind = "lexical"

\* C32: an agent_end call for a turn whose success flag is false or absent, or whose
\* messages are not an array or are an empty one, inserts no item and no fact.
C32_FailedTurnStoresNothing ==
    [][(/\ out'.op = "agent_end"
        /\ \E event \in {out'.params[1]} :
              \/ event.success \in {None, Some(FALSE)}
              \/ ~event.messages.isArray
              \/ event.messages.list = <<>>)
       => items' = items /\ facts' = facts /\ nextId' = nextId]_vars

\* A turn with a message worth keeping and no success flag has ended.
C32_Witness ==
    /\ out.op = "agent_end"
    /\ out.params[1].success = None
    /\ ExtractCaptures(out.params[1].messages.list) # <<>>
    /\ out.stored = 0

\* The texts a message carries: its string body, or the texts of its text blocks.
TextContents(msg) ==
    IF msg.content.kind = "string" THEN {msg.content.text}
    ELSE IF msg.content.kind = "array"
         THEN {b.text : b \in {c \in Range(msg.content.blocks) : c.type = "text"}}
    ELSE {}

\* C33: every item agent_end inserts carries the role of a user or assistant message of
\* the turn as its tags, entity_id "user" or "agent" accordingly, the event's session
\* key as session_id and a text of that message; other messages give no item.
C33_CapturedItemsAreAttributed ==
    [][out'.op = "agent_end" =>
         \E event \in {out'.params[1]} :
         \A it \in items' \ items :
            /\ it.tags \in {"user", "assistant"}
            /\ it.entity_id = (IF it.tags = "user" THEN "user" ELSE "agent")
            /\ it.session_id = event.sessionKey
            /\ \E msg \in Range(event.messages.list) :
                  /\ msg.isObject
                  /\ msg.role = it.tags
                  /\ \E t \in TextContents(msg) :
                        it.text = clip(Trim(t), getCfg(pluginConfig).captureMaxChars)]_vars

\* A turn without a session key whose messages include a system message, a value that
\* is no object and an image block has ended, and items of it are stored.
C33_Witness ==
    /\ out.op = "agent_end"
    /\ out.stored > 0
    /\ \E event \in {out.params[1]} :
          /\ event.sessionKey = Null
          /\ \E msg \in Range(event.messages.list) : ~msg.isObject
          /\ \E msg \in Range(event.messages.list) : msg.isObject /\ msg.role = "system"
          /\ \E msg \in Range(event.messages.list) :
                msg.content.kind = "array"
                /\ \E b \in Range(msg.content.blocks) : b.type = "image"
    /\ \E it \in items : it.session_id = Null /\ it.entity_id = "agent"

\* The item addItem makes of a candidate: its role and its clipped text.
CameFrom(it, c) ==
    it.tags = c.role /\ it.text = clip(c.text, getCfg(pluginConfig).captureMaxChars)

\* C34: agent_end looks at the first captureMaxPerTurn sanitized candidates only, in
\* their order: each item it inserts comes from one of them, items inserted one after
\* the other come from candidates in that order, and no other step inserts an item.
C34_OnlyFirstCandidatesConsidered ==
    [][IF out'.op = "agent_end"
       THEN \E cleaned \in {out'.cleaned} :
            \E cap \in {Min(getCfg(pluginConfig).captureMaxPerTurn, Len(cleaned))} :
               /\ Len(out'.disp) <= cap
               /\ \A it \in items' \ items : \E i \in 1..cap : CameFrom(it, cleaned[i])
               /\ \A a, b \in items' \ items :
                     a.id < b.id => \E i, j \in 1..cap :
                                      i < j /\ CameFrom(a, cleaned[i]) /\ CameFrom(b, cleaned[j])
       ELSE items' \subseteq items]_vars

\* A turn has ended whose first candidate was skipped and whose candidate beyond the
\* cap, which is neither noise nor a duplicate, is not in the store.
C34_Witness ==
    /\ out.op = "agent_end"
    /\ \E cleaned \in {out.cleaned} :
       \E cap \in {getCfg(pluginConfig).captureMaxPerTurn} :
          /\ Len(cleaned) > cap
          /\ out.disp # <<>> /\ out.disp[1] \in {"noise", "duplicate"}
          /\ ~shouldSkipCapture(cleaned[cap + 1].text, getCfg(pluginConfig).captureMinChars)
          /\ \A it \in items : ~CameFrom(it, cleaned[cap + 1])

\* The rows memory_forget is to delete: the row of memoryId, or else the row of the
\* first of the five results recall gives for the query.
ForgetTarget(params) ==
    IF params.memoryId # None THEN {q \in items : q.id \in params.memoryId}
    ELSE IF params.query \in {None, Some(<<>>)} THEN {}
    ELSE LET r == recall(Coalesce(params.query, <<>>), Some(5), NoFilter, NoFault, "ok")
         IN IF r.results = <<>> THEN {} ELSE {q \in items : q.id = r.results[1].id}

\* C35: a memory_forget call removes at most one item, the one of memoryId or else the
\* first result of recall(query, 5), and changes no other; a call with neither
\* memoryId nor query reports an error and removes nothing.
C35_ForgetDeletesOneItem ==
    [][out'.op = "memory_forget" =>
         \E params \in {out'.params[1]} :
            /\ items' \subseteq items
            /\ Cardinality(items \ items') <= 1
            /\ items \ items' \subseteq ForgetTarget(params)
            /\ ~out'.threw => items \ items' = ForgetTarget(params)
            /\ (params.memoryId = None /\ params.query \in {None, Some(<<>>)})
                  => out'.kind = "error" /\ items' = items]_vars

\* A query that two items match has been forgotten: the first result is gone and the
\* other item with the same text is still there.
C35_Witness ==
    /\ out.op = "memory_forget"
    /\ out.kind = "deleted"
    /\ out.n = 1
    /\ out.params[1].memoryId = None
    /\ \E q \in items : q.text = Coalesce(out.params[1].query, <<>>)

\* C36: the items memory_recall returns for a call with entityId, processId or
\* sessionId all carry the values given, whatever the search mode.
C36_RecallHonoursFilter ==
    (out.op = "memory_recall" /\ ~out.threw) =>
        \E params \in {out.params[1]} :
        \A i \in 1..Len(out.results) :
        \A it \in {q \in items : q.id = out.results[i]} :
           /\ params.entityId # None => it.entity_id \in params.entityId
           /\ params.processId # None => it.process_id \in params.processId
           /\ params.sessionId # None => it.session_id \in params.sessionId

\* C37: whatever memory_store, agent_end, memory_forget and memory_gc do, every
\* embeddings row belongs to an item that is in the store.
C37_NoOrphanedEmbeddings ==
    \A e \in embeddings : \E it \in items : it.id = e

====
